---- MODULE Spec2Model ----
(***************************************************************************)
(* A model of decompal's content-addressed report store:                   *)
(*   - the report serializer (common: Serialize / Deserialize, compress /  *)
(*     decompress),                                                        *)
(*   - the persistence layer (database: InsertReport, GetReport,           *)
(*     ReportExists, UpsertProject) over the SQLite schema that the three  *)
(*     migrations leave behind.                                            *)
(***************************************************************************)
EXTENDS Integers, Sequences, FiniteSets, TLC

(***************************************************************************)
(* Bounds of the model.                                                    *)
(***************************************************************************)
MaxName == 1
MaxCode == 1
MaxUnits == 2
MaxCalls == 2

(***************************************************************************)
(* Byte strings are sequences of numbers in 0..255.                        *)
(***************************************************************************)
RECURSIVE SumBytes(_)
SumBytes(b) == IF b = <<>> THEN 0 ELSE Head(b) + SumBytes(Tail(b))

(***************************************************************************)
(* In-memory report: Measures is a pointer (present or nil), Units a list. *)
(* A unit carries a string (name: 0 is the empty string, n > 0 the one     *)
(* character string with byte n) and a counter.                            *)
(***************************************************************************)
NilMeasures == [present |-> FALSE, matched_code |-> 0]
MeasuresSet == {NilMeasures} \cup [present : {TRUE}, matched_code : 0..MaxCode]
ReportUnitSet == [name : 0..MaxName, total_code : 0..MaxCode]
EmptyUnit == [name |-> 0, total_code |-> 0]
UnitSeqs == UNION {[1..n -> ReportUnitSet] : n \in 0..MaxUnits}
Reports == [Measures : MeasuresSet, Units : UnitSeqs]
NilReport == [Measures |-> NilMeasures, Units |-> <<>>]

(***************************************************************************)
(* proto.MarshalOptions{Deterministic: true}.Marshal: fields in tag order, *)
(* a scalar with its default value is not written, a present sub-message   *)
(* is written as tag, length, body.                                        *)
(***************************************************************************)
MarshalVarintField(tag, v) == IF v = 0 THEN <<>> ELSE <<tag, v>>
MarshalStringField(tag, s) == IF s = 0 THEN <<>> ELSE <<tag, 1, s>>
MarshalMeasures(m) == MarshalVarintField(16, m.matched_code)
MarshalUnit(u) ==
    MarshalStringField(10, u.name) \o MarshalVarintField(16, u.total_code)
\* Marshal of the sparse report: Measures kept, Units emptied.
MarshalSparseReport(m) ==
    IF m.present
    THEN <<10, Len(MarshalMeasures(m))>> \o MarshalMeasures(m)
    ELSE <<>>

(***************************************************************************)
(* proto.Unmarshal: reads tag after tag; the last value of a scalar wins;  *)
(* a truncated or unparsable field is an error.                            *)
(***************************************************************************)
RECURSIVE UnmarshalUnitFrom(_, _)
UnmarshalUnitFrom(b, acc) ==
    IF b = <<>> THEN [ok |-> TRUE, unit |-> acc]
    ELSE IF b[1] = 10 /\ Len(b) >= 3 /\ b[2] = 1
    THEN UnmarshalUnitFrom(SubSeq(b, 4, Len(b)), [acc EXCEPT !.name = b[3]])
    ELSE IF b[1] = 10 /\ Len(b) >= 2 /\ b[2] = 0
    THEN UnmarshalUnitFrom(SubSeq(b, 3, Len(b)), [acc EXCEPT !.name = 0])
    ELSE IF b[1] = 16 /\ Len(b) >= 2
    THEN UnmarshalUnitFrom(SubSeq(b, 3, Len(b)), [acc EXCEPT !.total_code = b[2]])
    ELSE [ok |-> FALSE, unit |-> EmptyUnit]
UnmarshalUnit(b) == UnmarshalUnitFrom(b, EmptyUnit)

RECURSIVE UnmarshalMeasuresFrom(_, _)
UnmarshalMeasuresFrom(b, acc) ==
    IF b = <<>> THEN [ok |-> TRUE, measures |-> acc]
    ELSE IF b[1] = 16 /\ Len(b) >= 2
    THEN UnmarshalMeasuresFrom(SubSeq(b, 3, Len(b)), [acc EXCEPT !.matched_code = b[2]])
    ELSE [ok |-> FALSE, measures |-> NilMeasures]
UnmarshalSparseReport(b) ==
    IF b = <<>> THEN [ok |-> TRUE, measures |-> NilMeasures]
    ELSE IF b[1] = 10 /\ Len(b) >= 2 /\ Len(b) = 2 + b[2]
    THEN UnmarshalMeasuresFrom(SubSeq(b, 3, Len(b)),
                               [present |-> TRUE, matched_code |-> 0])
    ELSE [ok |-> FALSE, measures |-> NilMeasures]

(***************************************************************************)
(* blake3.Sum512 gives 64 bytes; copy(serialized.Key[:], hash[:]) keeps    *)
(* the first 32 of them.  The digest is modelled as collision free: each   *)
(* half is a tagged copy of the hashed bytes.                              *)
(***************************************************************************)
Blake3Sum512(b) == <<[half |-> "lo", of |-> b], [half |-> "hi", of |-> b]>>
UnitKey(b) == Blake3Sum512(b)[1]

(***************************************************************************)
(* zstd.  EncodeAll writes nothing for empty input; otherwise one frame,   *)
(* modelled in its single-segment layout: magic number, frame header       *)
(* descriptor (single segment + checksum), frame content size, the         *)
(* content, a content checksum.                                            *)
(***************************************************************************)
ZstdMagic == <<40, 181, 47, 253>>
ZstdFrameDescriptor == 32 + 4
ZstdChecksum(b) == (SumBytes(b) + 7 * Len(b)) % 256
ZstdEncodeAll(src) ==
    IF src = <<>> THEN <<>>
    ELSE ZstdMagic \o <<ZstdFrameDescriptor, Len(src)>> \o src \o <<ZstdChecksum(src)>>
\* Bits of the frame header descriptor: bit 3 is reserved (must be 0),
\* bit 4 is unused (ignored by a decoder).
ZstdReservedBit(fhd) == (fhd \div 8) % 2 = 1
ZstdWithoutUnusedBit(fhd) == fhd - 16 * ((fhd \div 16) % 2)
\* zstd.Header.Decode: nil error iff the input starts with a frame header.
ZstdHeaderDecodes(in) ==
    /\ Len(in) >= 6
    /\ SubSeq(in, 1, 4) = ZstdMagic
    /\ ~ZstdReservedBit(in[5])
\* Decoder.DecodeAll on an input whose header decoded.
ZstdDecodeAll(in) ==
    IF /\ Len(in) >= 7
       /\ ZstdWithoutUnusedBit(in[5]) = ZstdFrameDescriptor
       /\ in[6] = Len(in) - 7
       /\ in[Len(in)] = ZstdChecksum(SubSeq(in, 7, Len(in) - 1))
    THEN [ok |-> TRUE, bytes |-> SubSeq(in, 7, Len(in) - 1)]
    ELSE [ok |-> FALSE, bytes |-> <<>>]

compress(in) == ZstdEncodeAll(in)

\* Faulty variant: no fallback for data that is not a zstd frame.
decompress_NoRawFallback(in) ==
    IF ~ZstdHeaderDecodes(in) THEN [ok |-> FALSE, bytes |-> <<>>] ELSE ZstdDecodeAll(in)

decompress(in) ==
    IF ~ZstdHeaderDecodes(in)
    THEN [ok |-> TRUE, bytes |-> in]      \* "Assume the data is not compressed"
    ELSE ZstdDecodeAll(in)

(***************************************************************************)
(* Report.Serialize and SerializedReport.Deserialize.                      *)
(***************************************************************************)
SerializeUnit(u) ==
    [Key |-> UnitKey(MarshalUnit(u)), Data |-> compress(MarshalUnit(u))]

Serialize(report) ==
    [Data  |-> MarshalSparseReport(report.Measures),
     Units |-> [i \in 1..Len(report.Units) |-> SerializeUnit(report.Units[i])]]

NilSerialized == [Data |-> <<>>, Units |-> <<>>]

Failure(e) == [err |-> e, report |-> NilReport]

\* Faulty variant: the recomputed hash is not compared with the stored key.
RECURSIVE DeserializeUnits_NoKeyCheck(_, _, _)
DeserializeUnits_NoKeyCheck(units, i, report) ==
    IF i > Len(units) THEN [err |-> "nil", report |-> report]
    ELSE LET d == decompress(units[i].Data)
             u == UnmarshalUnit(d.bytes)
         IN  IF ~d.ok THEN Failure("zstd")
             ELSE IF ~u.ok THEN Failure("proto")
             ELSE DeserializeUnits_NoKeyCheck(units, i + 1,
                      [report EXCEPT !.Units = Append(@, u.unit)])

RECURSIVE DeserializeUnits(_, _, _)
DeserializeUnits(units, i, report) ==
    IF i > Len(units) THEN [err |-> "nil", report |-> report]
    ELSE LET d == decompress(units[i].Data)
             u == UnmarshalUnit(d.bytes)
         IN  IF ~d.ok THEN Failure("zstd")
             ELSE IF UnitKey(d.bytes) # units[i].Key THEN Failure("unit key mismatch")
             ELSE IF ~u.ok THEN Failure("proto")
             ELSE DeserializeUnits(units, i + 1,
                      [report EXCEPT !.Units = Append(@, u.unit)])

Deserialize(serialized) ==
    LET sparse == UnmarshalSparseReport(serialized.Data)
    IN  IF ~sparse.ok THEN Failure("proto")
        ELSE DeserializeUnits(serialized.Units, 1,
                 [Measures |-> sparse.measures, Units |-> <<>>])

(***************************************************************************)
(* Text values are sequences of character codes, so that the NOCASE        *)
(* collation can be computed: it folds the 26 upper case ASCII letters.    *)
(***************************************************************************)
ToLowerChar(c) == IF c >= 65 /\ c <= 90 THEN c + 32 ELSE c
NoCase(s) == [i \in DOMAIN s |-> ToLowerChar(s[i])]
CollationEq(coll, a, b) == IF coll = "NOCASE" THEN NoCase(a) = NoCase(b) ELSE a = b

(***************************************************************************)
(* The schema after migrations 1, 2 and 3: the unique constraints of each  *)
(* table, each a sequence of (column, collation), and the collation of the *)
(* text columns as declared by CREATE TABLE (none given: BINARY).          *)
(***************************************************************************)
ProjectsPrimaryKey == <<[col |-> "id", coll |-> "BINARY"]>>
ReportUnitsPrimaryKey == <<[col |-> "id", coll |-> "BINARY"]>>
\* Faulty variant: the index as migration 1 created it, without COLLATE NOCASE.
ReportsUniqueIndex_Binary ==
    <<[col |-> "project_id", coll |-> "BINARY"],
      [col |-> "version", coll |-> "BINARY"],
      [col |-> "git_commit", coll |-> "BINARY"]>>
ReportsUniqueIndex ==
    <<[col |-> "project_id", coll |-> "BINARY"],
      [col |-> "version", coll |-> "NOCASE"],
      [col |-> "git_commit", coll |-> "NOCASE"]>>
ReportReportUnitsPrimaryKey ==
    <<[col |-> "report_id", coll |-> "BINARY"],
      [col |-> "report_unit_id", coll |-> "BINARY"],
      [col |-> "unit_index", coll |-> "BINARY"]>>
ReportsColumnCollation == "BINARY"

\* SQLite resolves an ON CONFLICT target against the unique constraints of the
\* table: the target must name exactly the columns of one of them, otherwise
\* the statement is rejected ("ON CONFLICT clause does not match any PRIMARY
\* KEY or UNIQUE constraint").
ConflictTargetMatches(target, constraint) ==
    /\ Cardinality(target) = Len(constraint)
    /\ \A i \in DOMAIN constraint : constraint[i].col \in target
\* Two rows conflict on a constraint when they agree on each of its columns
\* under that column's collation.
RowsConflict(constraint, a, b) ==
    \A i \in DOMAIN constraint :
        CollationEq(constraint[i].coll, a[constraint[i].col], b[constraint[i].col])

(***************************************************************************)
(* The store: four tables, each a set of rows.                             *)
(***************************************************************************)
EmptyStore ==
    [projects |-> {}, reports |-> {}, report_units |-> {}, report_report_units |-> {}]

SetMax(S) == CHOOSE x \in S : \A y \in S : y <= x
\* INTEGER PRIMARY KEY without AUTOINCREMENT: one more than the largest rowid.
NextRowid(rows) == IF rows = {} THEN 1 ELSE SetMax({r.id : r \in rows}) + 1

SqlOk(store) == [err |-> "nil", store |-> store, id |-> 0]
SqlError(e, store) == [err |-> e, store |-> store, id |-> 0]
ConflictTargetError == "ON CONFLICT clause does not match any PRIMARY KEY or UNIQUE constraint"

\* Faulty variant: the new row takes the place of the row it conflicts with.
UpsertProject_Replace(store, project, now) ==
    LET row == [id |-> project.ID, owner |-> project.Owner, name |-> project.Name,
                created_at |-> now, updated_at |-> now]
        hit == {r \in store.projects : RowsConflict(ProjectsPrimaryKey, r, row)}
    IN  SqlOk([store EXCEPT !.projects = (@ \ hit) \cup {row}])
\* INSERT INTO projects (id, owner, name, created_at, updated_at)
\* VALUES (?, ?, ?, current_timestamp, current_timestamp)
\* ON CONFLICT(id) DO UPDATE SET owner = EXCLUDED.owner, name = EXCLUDED.name,
\* run when current_timestamp is now: a row that conflicts keeps its other
\* columns.
UpsertProject(store, project, now) ==
    LET row == [id |-> project.ID, owner |-> project.Owner, name |-> project.Name,
                created_at |-> now, updated_at |-> now]
        hit == {r \in store.projects : RowsConflict(ProjectsPrimaryKey, r, row)}
    IN  IF ~ConflictTargetMatches({"id"}, ProjectsPrimaryKey)
        THEN SqlError(ConflictTargetError, store)
        ELSE IF hit = {}
        THEN SqlOk([store EXCEPT !.projects = @ \cup {row}])
        ELSE SqlOk([store EXCEPT !.projects =
                       (@ \ hit) \cup {[r EXCEPT !.owner = row.owner, !.name = row.name] :
                                         r \in hit}])

\* Faulty variant: the unit rows are not written (before the rows that reference them).
insertReportUnits_Skipped(store, unit) == SqlOk(store)

\* INSERT INTO report_units (id, data) ... ON CONFLICT(id) DO NOTHING
insertReportUnits(store, unit) ==
    LET row == [id |-> unit.Key, data |-> unit.Data]
        hit == {r \in store.report_units : RowsConflict(ReportUnitsPrimaryKey, r, row)}
    IN  IF ~ConflictTargetMatches({"id"}, ReportUnitsPrimaryKey)
        THEN SqlError(ConflictTargetError, store)
        ELSE IF hit # {} THEN SqlOk(store)
        ELSE SqlOk([store EXCEPT !.report_units = @ \cup {row}])

\* Faulty variant: the upsert also overwrites the header blob.
InsertReportRow_OverwritesData(store, file, data) ==
    LET row == [id |-> NextRowid(store.reports), project_id |-> file.Project.ID,
                version |-> file.Version, git_commit |-> file.Commit.Sha,
                timestamp |-> file.Commit.Timestamp, data |-> data]
        hit == {r \in store.reports : RowsConflict(ReportsUniqueIndex, r, row)}
    IN  IF hit = {}
        THEN [err |-> "nil", store |-> [store EXCEPT !.reports = @ \cup {row}], id |-> row.id]
        ELSE LET old == CHOOSE r \in hit : TRUE
             IN  [err |-> "nil",
                  store |-> [store EXCEPT !.reports =
                      (@ \ {old}) \cup {[old EXCEPT !.timestamp = row.timestamp,
                                                    !.data = data]}],
                  id |-> old.id]

\* INSERT INTO reports ... ON CONFLICT (project_id, version, git_commit)
\*   DO UPDATE SET timestamp = EXCLUDED.timestamp RETURNING id
InsertReportRow(store, file, data) ==
    LET row == [id |-> NextRowid(store.reports), project_id |-> file.Project.ID,
                version |-> file.Version, git_commit |-> file.Commit.Sha,
                timestamp |-> file.Commit.Timestamp, data |-> data]
        hit == {r \in store.reports : RowsConflict(ReportsUniqueIndex, r, row)}
    IN  IF ~ConflictTargetMatches({"project_id", "version", "git_commit"}, ReportsUniqueIndex)
        THEN SqlError(ConflictTargetError, store)
        ELSE IF hit = {}
        THEN [err |-> "nil", store |-> [store EXCEPT !.reports = @ \cup {row}], id |-> row.id]
        ELSE LET old == CHOOSE r \in hit : TRUE
             IN  [err |-> "nil",
                  store |-> [store EXCEPT !.reports =
                      (@ \ {old}) \cup {[old EXCEPT !.timestamp = row.timestamp]}],
                  id |-> old.id]

\* Variant: the conflict target is the table's primary key, so the statement
\* is accepted and a row is added for every new (report, unit, position).
InsertReportReportUnit_FullKey(store, reportID, key, idx) ==
    LET row == [report_id |-> reportID, report_unit_id |-> key, unit_index |-> idx]
    IN  IF row \in store.report_report_units THEN SqlOk(store)
        ELSE SqlOk([store EXCEPT !.report_report_units = @ \cup {row}])
\* INSERT INTO report_report_units (report_id, report_unit_id, unit_index)
\*   ... ON CONFLICT (report_id, report_unit_id) DO NOTHING
InsertReportReportUnit(store, reportID, key, idx) ==
    LET row == [report_id |-> reportID, report_unit_id |-> key, unit_index |-> idx]
        target == <<[col |-> "report_id", coll |-> "BINARY"],
                    [col |-> "report_unit_id", coll |-> "BINARY"]>>
        hit == {r \in store.report_report_units : RowsConflict(target, r, row)}
    IN  IF ~ConflictTargetMatches({"report_id", "report_unit_id"}, ReportReportUnitsPrimaryKey)
        THEN SqlError(ConflictTargetError, store)
        ELSE IF hit # {} THEN SqlOk(store)
        ELSE SqlOk([store EXCEPT !.report_report_units = @ \cup {row}])

\* tx.Commit publishes the transaction's writes; tx.Rollback discards them.
CommitTx(committed, working) == working
\* Faulty variant: the transaction's writes survive the rollback.
RollbackTx_KeepsWrites(committed, working) == working
RollbackTx(committed, working) == committed

(***************************************************************************)
(* Fetch: the two queries of GetReport and the query of ReportExists.      *)
(***************************************************************************)
\* WHERE p.id = ? AND r.version = ? AND r.git_commit = ?, reports JOIN projects:
\* the comparisons use the collation of the columns.
SelectReportRows(store, projectID, version, commitSha) ==
    {r \in store.reports :
        /\ r.project_id = projectID
        /\ CollationEq(ReportsColumnCollation, r.version, version)
        /\ CollationEq(ReportsColumnCollation, r.git_commit, commitSha)
        /\ \E p \in store.projects : p.id = r.project_id}

ReportExists(store, projectID, version, commitSha) ==
    \E r \in store.reports :
        /\ r.project_id = projectID
        /\ CollationEq(ReportsColumnCollation, r.version, version)
        /\ CollationEq(ReportsColumnCollation, r.git_commit, commitSha)

\* report_report_units JOIN report_units WHERE report_id = ?
JoinedUnitRows(store, reportID) ==
    {[unit_index |-> j.unit_index, Key |-> u.id, Data |-> u.data] :
        <<j, u>> \in {<<j, u>> \in store.report_report_units \X store.report_units :
                          j.report_id = reportID /\ u.id = j.report_unit_id}}

\* ORDER BY rru.unit_index: every listing of the rows that is sorted by
\* unit_index (rows with equal unit_index come in an unspecified order).
OrderedUnitRows(rows) ==
    {s \in [1..Cardinality(rows) -> rows] :
        /\ \A i, j \in DOMAIN s : i < j => s[i] # s[j] /\ s[i].unit_index <= s[j].unit_index}

NilCommit == [Sha |-> <<>>, Timestamp |-> 0]
NilProject == [ID |-> 0, Owner |-> "", Name |-> ""]
NilFile == [Project |-> NilProject, Version |-> <<>>, Commit |-> NilCommit, Report |-> NilReport]
NotFound == [found |-> FALSE, err |-> "nil", file |-> NilFile]

\* The second half of GetReport: the unit rows are read and deserialized.
GetReportFromRows(row, project, units, version, commitSha) ==
    LET d == Deserialize([Data |-> row.data,
                          Units |-> [i \in DOMAIN units |->
                                        [Key |-> units[i].Key, Data |-> units[i].Data]]])
    IN  IF d.err # "nil" THEN [found |-> FALSE, err |-> d.err, file |-> NilFile]
        ELSE [found |-> TRUE, err |-> "nil",
              file |-> [Project |-> [ID |-> project.id, Owner |-> project.owner,
                                     Name |-> project.name],
                        Version |-> version,
                        Commit |-> [Sha |-> commitSha, Timestamp |-> row.timestamp],
                        Report |-> d.report]]

\* The results GetReport can give when both of its queries see `store`.
GetReport(store, projectID, version, commitSha) ==
    LET rows == SelectReportRows(store, projectID, version, commitSha)
    IN  IF rows = {} THEN {NotFound}
        ELSE UNION {{GetReportFromRows(row, CHOOSE p \in store.projects : p.id = projectID,
                                       units, version, commitSha) :
                        units \in OrderedUnitRows(JoinedUnitRows(store, row.id))} :
                    row \in rows}

(***************************************************************************)
(* Inputs of the store specification.                                      *)
(***************************************************************************)
Str_v1 == <<118, 49>>
Str_V1 == <<86, 49>>
Str_abcd == <<97, 98, 99, 100>>
Str_ABCD == <<65, 66, 67, 68>>
Str_ef01 == <<101, 102, 48, 49>>
\* (version, commit sha) pairs: one pair, the same pair in upper case, and a
\* second commit of the same version.
ReportKeys == {<<Str_v1, Str_abcd>>, <<Str_V1, Str_ABCD>>, <<Str_v1, Str_ef01>>}
\* A report file comes in two variants: as first uploaded (timestamp 1, no
\* measures, the project under its old name) or as uploaded again later
\* (timestamp 2, measures filled in, the project renamed).
FirstUpload ==
    [Timestamp |-> 1, Measures |-> NilMeasures,
     Project |-> [ID |-> 1, Owner |-> "encounter", Name |-> "decompal"]]
LaterUpload ==
    [Timestamp |-> 2, Measures |-> [present |-> TRUE, matched_code |-> 1],
     Project |-> [ID |-> 1, Owner |-> "encounter", Name |-> "decomp.dev"]]
Variants == {FirstUpload, LaterUpload}
ProjectIDs == {v.Project.ID : v \in Variants}
StoreUnit == [name |-> 1, total_code |-> 0]
StoreUnitSeqs == {[i \in 1..n |-> StoreUnit] : n \in 0..MaxUnits}
ReportFiles ==
    {[Project |-> v.Project, Version |-> key[1],
      Commit |-> [Sha |-> key[2], Timestamp |-> v.Timestamp],
      Report |-> [Measures |-> v.Measures, Units |-> units]] :
        key \in ReportKeys, v \in Variants, units \in StoreUnitSeqs}

(***************************************************************************)
(* zipstream: the streaming archive reader.                                *)
(* Streams are sequences of bytes.  Values of 32 and 64 bits are kept as   *)
(* their little-endian bytes; a size is turned into a number only where    *)
(* the reader uses it as a length, and the sizes of the archives below     *)
(* stay far under 2^31.                                                    *)
(***************************************************************************)
headerIdentifierLen == 4
fileHeaderLen == 26
fileHeaderSignature == <<80, 75, 3, 4>>
directoryHeaderSignature == <<80, 75, 1, 2>>
directoryEndSignature == <<80, 75, 5, 6>>
dataDescriptorSignature == <<80, 75, 7, 8>>
zip64ExtraID == 1
zipStore == 0
zipDeflate == 8
MaxUint32 == <<255, 255, 255, 255>>

\* readBuf.uint16, readBuf.uint32, readBuf.uint64 at (1-based) offset i
uint16(b, i) == b[i] + 256 * b[i + 1]
uint32(b, i) == SubSeq(b, i, i + 3)
uint64(b, i) == SubSeq(b, i, i + 7)
\* the number a little-endian size stands for
\* (HugeSize stands for every size of 2^31 and more: no stream is that long)
HugeSize == 2147483647
SizeOf(bytes) ==
    IF \E i \in 4..Len(bytes) : (i = 4 /\ bytes[i] >= 128) \/ (i > 4 /\ bytes[i] # 0)
    THEN HugeSize
    ELSE bytes[1] + 256 * bytes[2] + 65536 * bytes[3] + 16777216 * bytes[4]
\* io.LimitReader(z.r, n) at position pos: the position its last byte is at
LimitEnd(s, pos, n) == IF n > Len(s) - pos THEN Len(s) ELSE pos + n

\* Errors: the chain of fmt.Errorf("...: %w") wrappers around a cause.
NoError == [wraps |-> <<>>, cause |-> "nil"]
ioEOF == [wraps |-> <<>>, cause |-> "EOF"]
ErrUnexpectedEOF == [wraps |-> <<>>, cause |-> "ErrUnexpectedEOF"]
zipErrFormat == [wraps |-> <<>>, cause |-> "ErrFormat"]
NewError(text) == [wraps |-> <<>>, cause |-> text]
Wrap(text, err) == [wraps |-> <<text>> \o err.wraps, cause |-> err.cause]

\* io.ReadFull of n bytes from position pos of stream s: io.EOF if no byte
\* could be read, io.ErrUnexpectedEOF if the stream ended part-way.
ReadFull(s, pos, n) ==
    IF pos + n <= Len(s)
    THEN [err |-> NoError, buf |-> SubSeq(s, pos + 1, pos + n), pos |-> pos + n]
    ELSE [err |-> IF pos >= Len(s) THEN ioEOF ELSE ErrUnexpectedEOF,
          buf |-> <<>>, pos |-> Len(s)]

\* compress/flate's decoder, for streams of stored blocks (RFC 1951 3.2.4):
\* a header byte whose bit 0 marks the final block, LEN, NLEN = ~LEN and LEN
\* literal bytes.  It reads the bytes of s from position pos up to position
\* end and stops right after the final block.
RECURSIVE Inflate(_, _, _, _)
Inflate(s, pos, end, out) ==
    IF pos + 5 > end
    THEN [err |-> ErrUnexpectedEOF, data |-> out, pos |-> end]
    ELSE LET hdr == s[pos + 1]
             len == uint16(s, pos + 2)
             nlen == uint16(s, pos + 4)
         IN  IF (hdr \div 2) % 4 # 0 \/ len + nlen # 65535
             THEN [err |-> NewError("flate: corrupt input"), data |-> out, pos |-> pos + 5]
             ELSE IF pos + 5 + len > end
             THEN [err |-> ErrUnexpectedEOF, data |-> out \o SubSeq(s, pos + 6, end),
                   pos |-> end]
             ELSE IF hdr % 2 = 1
             THEN [err |-> NoError, data |-> out \o SubSeq(s, pos + 6, pos + 5 + len),
                   pos |-> pos + 5 + len]
             ELSE Inflate(s, pos + 5 + len, end, out \o SubSeq(s, pos + 6, pos + 5 + len))

NilEntry == [Name |-> <<>>, Flags |-> 0, Method |-> 0, CompressedSize64 |-> 0,
             UncompressedSize64 |-> 0, r |-> "nil"]

\* Entry.hasDataDescriptor
hasDataDescriptor(e) == (e.Flags \div 8) % 2 = 1

\* Faulty variant: the ZIP64 field replaces both sizes, maxed out or not.
zip64Extra_Always(fieldBuf, st) ==
    IF Len(fieldBuf) < 16 THEN [st EXCEPT !.err = zipErrFormat]
    ELSE [needUSize |-> FALSE, needCSize |-> FALSE,
          usize |-> SizeOf(uint64(fieldBuf, 1)), csize |-> SizeOf(uint64(fieldBuf, 9)),
          err |-> st.err]
\* case zip64ExtraID of readEntry's loop: st holds needUSize, needCSize, the
\* two 64-bit sizes and the error.  A size is taken from the field only if
\* it is still needed, the uncompressed size first.
zip64Extra(fieldBuf, st) ==
    LET uShort == st.needUSize /\ Len(fieldBuf) < 8
        afterU == IF st.needUSize /\ ~uShort
                  THEN SubSeq(fieldBuf, 9, Len(fieldBuf))
                  ELSE fieldBuf
        cShort == st.needCSize /\ Len(afterU) < 8
    IN  IF uShort \/ cShort
        THEN [st EXCEPT !.err = zipErrFormat]
        ELSE [needUSize |-> FALSE,
              needCSize |-> FALSE,
              usize |-> IF st.needUSize THEN SizeOf(uint64(fieldBuf, 1)) ELSE st.usize,
              csize |-> IF st.needCSize THEN SizeOf(uint64(afterU, 1)) ELSE st.csize,
              err |-> st.err]

RECURSIVE ReadExtra_OversizedIsError(_, _)
RECURSIVE ReadExtra(_, _)
\* Faulty variant: a record that declares more bytes than are left is an error.
ReadExtra_OversizedIsError(ler, st) ==
    LET applied(after, upd) ==
            IF upd.err # NoError THEN upd ELSE ReadExtra_OversizedIsError(after, upd)
        record(fieldTag, fieldSize, rest) ==
            IF Len(rest) < fieldSize THEN [st EXCEPT !.err = zipErrFormat]
            ELSE IF fieldTag # zip64ExtraID
            THEN ReadExtra_OversizedIsError(SubSeq(rest, fieldSize + 1, Len(rest)), st)
            ELSE applied(SubSeq(rest, fieldSize + 1, Len(rest)),
                         zip64Extra(SubSeq(rest, 1, fieldSize), st))
    IN  IF Len(ler) < 4 THEN st
        ELSE record(uint16(ler, 1), uint16(ler, 3), SubSeq(ler, 5, Len(ler)))
\* The loop of readEntry over the extra area.  A record that declares more
\* bytes than are left ends the loop (break).
ReadExtra(ler, st) ==
    LET applied(after, upd) ==
            IF upd.err # NoError THEN upd ELSE ReadExtra(after, upd)
        record(fieldTag, fieldSize, rest) ==
            IF Len(rest) < fieldSize THEN st
            ELSE IF fieldTag # zip64ExtraID
            THEN ReadExtra(SubSeq(rest, fieldSize + 1, Len(rest)), st)
            ELSE applied(SubSeq(rest, fieldSize + 1, Len(rest)),
                         zip64Extra(SubSeq(rest, 1, fieldSize), st))
    IN  IF Len(ler) < 4 THEN st
        ELSE record(uint16(ler, 1), uint16(ler, 3), SubSeq(ler, 5, Len(ler)))

\* Faulty variant: a DEFLATE entry may lack its compressed size.
requireCompressedSize_DeflateExempt(needCSize, method) ==
    IF needCSize /\ method # zipDeflate THEN zipErrFormat ELSE NoError
\* readEntry's check after the extra area: the compressed size must be known
requireCompressedSize(needCSize, method) ==
    IF needCSize THEN zipErrFormat ELSE NoError

\* Faulty variant: encrypted entries are let through.
checkFlags_IgnoreEncrypted(flags, method) ==
    IF (flags \div 8) % 2 = 1 /\ method # zipDeflate
    THEN NewError("only DEFLATED entries can have data descriptor")
    ELSE NoError
\* readEntry's checks of the general-purpose flags
checkFlags(flags, method) ==
    IF flags % 2 = 1
    THEN NewError("encrypted ZIP entry not supported")
    ELSE IF (flags \div 8) % 2 = 1 /\ method # zipDeflate
    THEN NewError("only DEFLATED entries can have data descriptor")
    ELSE NoError

\* readEntry: the local file header that follows the signature at pos.
\* The entry's reader r is "store" (io.LimitReader of the uncompressed
\* size), "flate-limited" (flate over io.LimitReader of the compressed size)
\* or "flate-upstream" (flate over z.r itself, read byte by byte).
readEntry(s, pos) ==
    LET fail(e, p) == [err |-> e, entry |-> NilEntry, pos |-> p]
        \* the checks after the extra area, and the choice of the reader
        open(name, flags, method, sizes, p) ==
            IF sizes.err # NoError
            THEN fail(sizes.err, p)
            ELSE IF requireCompressedSize(sizes.needCSize, method) # NoError
            THEN fail(requireCompressedSize(sizes.needCSize, method), p)
            ELSE IF method \notin {zipStore, zipDeflate}
            THEN fail(NewError("unknown compression method"), p)
            ELSE [err |-> NoError,
                  entry |-> [Name |-> name, Flags |-> flags, Method |-> method,
                             CompressedSize64 |-> sizes.csize,
                             UncompressedSize64 |-> sizes.usize,
                             r |-> IF method = zipStore THEN "store"
                                   ELSE IF sizes.csize > 0 THEN "flate-limited"
                                   ELSE "flate-upstream"],
                  pos |-> p]
        \* the name and the extra area, the checks of the flags
        named(flags, method, compressedSize, uncompressedSize, filenameLen, nae) ==
            IF nae.err # NoError
            THEN fail(Wrap("unable to read entry name and extra area", nae.err), nae.pos)
            ELSE IF checkFlags(flags, method) # NoError
            THEN fail(checkFlags(flags, method), nae.pos)
            ELSE open(SubSeq(nae.buf, 1, filenameLen), flags, method,
                      ReadExtra(SubSeq(nae.buf, filenameLen + 1, Len(nae.buf)),
                                [needUSize |-> uncompressedSize = MaxUint32,
                                 needCSize |-> compressedSize = MaxUint32,
                                 usize |-> SizeOf(uncompressedSize),
                                 csize |-> SizeOf(compressedSize),
                                 err |-> NoError]),
                      nae.pos)
        \* the fields of the fixed part of the header
        fields(buf, p) ==
            named(uint16(buf, 3), uint16(buf, 5), uint32(buf, 15), uint32(buf, 19),
                  uint16(buf, 23),
                  ReadFull(s, p, uint16(buf, 23) + uint16(buf, 25)))
        header(hdr) ==
            IF hdr.err # NoError
            THEN fail(Wrap("unable to read local file header", hdr.err), hdr.pos)
            ELSE fields(hdr.buf, hdr.pos)
    IN  header(ReadFull(s, pos, fileHeaderLen))

\* Reading an entry to its end (io.ReadAll, io.Copy) from position pos.
\* A LimitReader passes the end of its upstream on as a plain io.EOF, which
\* ends the read without an error.
ReadEntry(s, pos, e) ==
    IF e.r = "store"
    THEN LET end == LimitEnd(s, pos, e.UncompressedSize64)
         IN  [err |-> NoError, data |-> SubSeq(s, pos + 1, end), pos |-> end]
    ELSE IF e.r = "flate-limited"
    THEN LET end == LimitEnd(s, pos, e.CompressedSize64)
             f == Inflate(s, pos, end, <<>>)
         IN  [err |-> f.err, data |-> f.data, pos |-> end]
    ELSE Inflate(s, pos, Len(s), <<>>)

\* Faulty variant: twelve bytes, whatever the first four are.
readDataDescriptor_AlwaysTwelve(s, pos) ==
    LET all == ReadFull(s, pos, 12) IN [err |-> all.err, pos |-> all.pos]
\* readDataDescriptor: four bytes that are the signature or the CRC, then
\* the rest of the twelve bytes of crc32, compressed size and size.
readDataDescriptor(s, pos) ==
    LET first == ReadFull(s, pos, 4)
        off == IF first.buf # dataDescriptorSignature THEN 4 ELSE 0
        rest == ReadFull(s, first.pos, 12 - off)
    IN  IF first.err # NoError THEN [err |-> first.err, pos |-> first.pos]
        ELSE [err |-> rest.err, pos |-> rest.pos]

\* The state of a Reader: the position reached in the stream, localFileEnd,
\* curEntry and how far curEntry has been read: "unread", "partial", "done",
\* or "failed" with the error the flate reader keeps returning.  After a
\* partial read, given counts the bytes a STORE entry has delivered
\* (io.LimitedReader.N is the size less given) and buffered holds the bytes
\* the flate reader has decoded and not yet delivered, readErr the error it
\* will return after them.
NewReader == [pos |-> 0, localFileEnd |-> FALSE, curEntry |-> NilEntry,
              read |-> "done", readErr |-> NoError, given |-> 0, buffered |-> <<>>]

\* What is left of the current entry: reading it to its end from state z.
ReadRest(s, z) ==
    IF z.read # "partial" THEN ReadEntry(s, z.pos, z.curEntry)
    ELSE IF z.curEntry.r = "store"
    THEN [err |-> NoError,
          data |-> SubSeq(s, z.pos + 1,
                          LimitEnd(s, z.pos, z.curEntry.UncompressedSize64 - z.given)),
          pos |-> LimitEnd(s, z.pos, z.curEntry.UncompressedSize64 - z.given)]
    ELSE [err |-> z.readErr, data |-> z.buffered, pos |-> z.pos]

\* io.Copy(io.Discard, z.curEntry) in Next
DiscardEntry(s, z) ==
    LET drained(rd) ==
            [err |-> rd.err,
             z |-> [z EXCEPT !.pos = rd.pos,
                             !.read = IF rd.err = NoError THEN "done" ELSE "failed",
                             !.readErr = rd.err, !.buffered = <<>>]]
    IN  IF z.curEntry = NilEntry \/ z.read = "done" THEN [err |-> NoError, z |-> z]
        ELSE IF z.read = "failed" THEN [err |-> z.readErr, z |-> z]
        ELSE drained(ReadRest(s, z))

\* Faulty variant: every signature that is not a local file header ends the
\* stream.
headerKind_UnknownIsEnd(headerID) ==
    IF headerID = fileHeaderSignature THEN "file" ELSE "end"
\* Next's decision on the header identifier: a local file header, the end of
\* the local files, or a format error.
headerKind(headerID) ==
    IF headerID = fileHeaderSignature THEN "file"
    ELSE IF headerID \in {directoryHeaderSignature, directoryEndSignature} THEN "end"
    ELSE "format"

\* What a call of Next read besides the entry: the position at which it
\* began to read the previous entry's data descriptor, the position at which
\* it read the header identifier, and the identifier (-1: not read).
NoMark == [ddAt |-> -1, sigAt |-> -1, sig |-> <<>>]

\* Reader.Next: the error, the entry and the reader afterwards.
ReaderNext(s, z) ==
    LET none(e, zz, m) == [err |-> e, entry |-> NilEntry, z |-> zz, mark |-> m]
        \* entry, err := z.readEntry(); z.curEntry = entry
        entered(zid, re, m) ==
            IF re.err # NoError
            THEN none(Wrap("unable to read zip file header", re.err),
                      [zid EXCEPT !.pos = re.pos], m)
            ELSE [err |-> NoError, entry |-> re.entry,
                  z |-> [zid EXCEPT !.pos = re.pos, !.curEntry = re.entry,
                                    !.read = "unread", !.readErr = NoError,
                                    !.given = 0, !.buffered = <<>>],
                  mark |-> m]
        \* the header identifier
        decided(zid, headerID, m) ==
            IF headerKind(headerID.buf) = "end"
            THEN none(ioEOF, [zid EXCEPT !.localFileEnd = TRUE], m)
            ELSE IF headerKind(headerID.buf) = "format"
            THEN none(zipErrFormat, zid, m)
            ELSE entered(zid, readEntry(s, headerID.pos), m)
        identified(zd, headerID, ddAt, sigAt) ==
            IF headerID.err # NoError
            THEN none(Wrap("unable to read header identifier", headerID.err),
                      [zd EXCEPT !.pos = headerID.pos],
                      [ddAt |-> ddAt, sigAt |-> sigAt, sig |-> <<>>])
            ELSE decided([zd EXCEPT !.pos = headerID.pos], headerID,
                         [ddAt |-> ddAt, sigAt |-> sigAt, sig |-> headerID.buf])
        \* the data descriptor of the previous entry
        described(zd, dd, ddAt) ==
            IF dd.err # NoError
            THEN none(Wrap("read previous entry's data descriptor fail", dd.err),
                      [zd EXCEPT !.pos = dd.pos],
                      [ddAt |-> ddAt, sigAt |-> -1, sig |-> <<>>])
            ELSE identified(zd, ReadFull(s, dd.pos, headerIdentifierLen), ddAt, dd.pos)
        \* the rest of the previous entry's data
        discarded(disc) ==
            IF disc.err # NoError
            THEN none(Wrap("read previous file data fail", disc.err), disc.z, NoMark)
            ELSE IF disc.z.curEntry # NilEntry /\ hasDataDescriptor(disc.z.curEntry)
            THEN described(disc.z, readDataDescriptor(s, disc.z.pos), disc.z.pos)
            ELSE described(disc.z, [err |-> NoError, pos |-> disc.z.pos], -1)
    IN  IF z.localFileEnd THEN none(ioEOF, z, NoMark)
        ELSE discarded(DiscardEntry(s, z))

\* Entry.Read until the end, by the caller of Next
ReaderReadAll(s, z) ==
    LET drained(rd) ==
            [err |-> rd.err, data |-> rd.data,
             z |-> [z EXCEPT !.pos = rd.pos,
                             !.read = IF rd.err = NoError THEN "done" ELSE "failed",
                             !.readErr = rd.err, !.buffered = <<>>]]
    IN  drained(ReadRest(s, z))

\* Entry.Read that delivers k bytes, fewer than are left.  A STORE entry
\* takes them from the stream; the flate reader has by then consumed the
\* whole stored block and keeps the bytes it has not delivered.
ReaderReadSome(s, z, k) ==
    LET some(rd) ==
            [data |-> SubSeq(rd.data, 1, k),
             z |-> IF z.curEntry.r = "store"
                   THEN [z EXCEPT !.pos = z.pos + k, !.read = "partial",
                                  !.given = z.given + k]
                   ELSE [z EXCEPT !.pos = rd.pos, !.read = "partial",
                                  !.buffered = SubSeq(rd.data, k + 1, Len(rd.data)),
                                  !.readErr = rd.err]]
    IN  some(ReadRest(s, z))

(***************************************************************************)
(* Archives as a ZIP writer produces them (APPNOTE 4.3.7, 4.3.9, 4.5.3).   *)
(* An entry is STORE or DEFLATE, carries its sizes in the header or in a   *)
(* ZIP64 extra field, and may be followed by a data descriptor, with or    *)
(* without its signature; the descriptor of a ZIP64 entry has sizes of     *)
(* eight bytes.  Only DEFLATE entries are written with a descriptor.       *)
(***************************************************************************)
MaxEntries == 2
U16(n) == <<n % 256, n \div 256>>
U32(n) == U16(n % 65536) \o U16(n \div 65536)
U64(n) == U32(n) \o <<0, 0, 0, 0>>
Crc32(content) == <<SumBytes(content) % 256, 195, 50, 0>>
\* a DEFLATE stream of one final stored block
Deflate(content) == <<1>> \o U16(Len(content)) \o U16(65535 - Len(content)) \o content
\* The local file header of entry e, its data and its data descriptor.
\* e.sizes says where the sizes are: "header"; "zip64" (the header's fields
\* maxed out and a ZIP64 extra field); "none" (maxed out, no extra field);
\* "zip64-usize" and "zip64-csize" (only that size maxed out and in the
\* ZIP64 field); "zip64-short" (both maxed out, the field holds one size);
\* "header+zip64" (the sizes in the header, and a ZIP64 field that holds
\* other numbers).  e.extra says which other record the extra area holds:
\* "none", "other" (a record of one byte, in front), "oversized" (a record
\* that declares more bytes than the area holds, in front) or
\* "oversized-last" (the same record, behind the ZIP64 field).  The other
\* record has the tag 0x5455 (21589) and one byte; oversized, it declares 100.
LocalFile(e) ==
    LET streamed == e.descriptor # "none"
        zip64 == e.sizes \notin {"header", "none"}
        data == IF e.method = zipDeflate THEN Deflate(e.content) ELSE e.content
        flags == 2048 + (IF streamed THEN 8 ELSE 0) + (IF e.encrypted THEN 1 ELSE 0)
        csize == IF streamed THEN 0 ELSE Len(data)
        usize == IF streamed THEN 0 ELSE Len(e.content)
        crc == IF streamed THEN <<0, 0, 0, 0>> ELSE Crc32(e.content)
        zip64Data == CASE e.sizes = "zip64" -> U64(usize) \o U64(csize)
                       [] e.sizes \in {"zip64-usize", "zip64-short"} -> U64(usize)
                       [] e.sizes = "zip64-csize" -> U64(csize)
                       [] e.sizes = "header+zip64" ->
                            U64(usize + 7) \o U64(csize + 9)
                       [] OTHER -> <<>>
        zip64Field == IF zip64 THEN U16(zip64ExtraID) \o U16(Len(zip64Data)) \o zip64Data
                      ELSE <<>>
        otherField == U16(21589)
                      \o U16(IF e.extra = "other" THEN 1 ELSE 100) \o <<3>>
        extra == CASE e.extra = "none" -> zip64Field
                   [] e.extra = "oversized-last" -> zip64Field \o otherField
                   [] OTHER -> otherField \o zip64Field
        size(n) == IF zip64 THEN U64(n) ELSE U32(n)
    IN  fileHeaderSignature \o U16(IF zip64 THEN 45 ELSE 20) \o U16(flags)
        \o U16(e.method) \o U16(0) \o U16(0) \o crc
        \o (IF e.sizes \in {"header", "zip64-usize", "header+zip64"}
            THEN U32(csize) ELSE MaxUint32)
        \o (IF e.sizes \in {"header", "zip64-csize", "header+zip64"}
            THEN U32(usize) ELSE MaxUint32)
        \o U16(Len(e.name)) \o U16(Len(extra)) \o e.name \o extra
        \o data
        \o (IF ~streamed THEN <<>>
            ELSE (IF e.descriptor = "signed" THEN dataDescriptorSignature ELSE <<>>)
                 \o Crc32(e.content) \o size(Len(data)) \o size(Len(e.content)))
RECURSIVE LocalFiles(_, _)
LocalFiles(archive, n) ==
    IF n = 0 THEN <<>> ELSE LocalFiles(archive, n - 1) \o LocalFile(archive[n])
ZipBytes(archive) ==
    LocalFiles(archive, Len(archive))
    \o (IF Len(archive) = 0 THEN directoryEndSignature ELSE directoryHeaderSignature)
\* the position at which the n-th entry of the archive ends
EntryEnd(archive, n) == Len(LocalFiles(archive, n))

\* Inputs of the reader specification: the i-th entry is named "a", "b", ...
\* and holds the bytes i, i; it is of any kind a writer produces.
EntryKinds ==
    {k \in [method : {zipStore, zipDeflate}, sizes : {"header", "zip64"},
            descriptor : {"none", "signed", "unsigned"}] :
        k.descriptor # "none" => k.method = zipDeflate}
EntryOf(k, i) == [method |-> k.method, sizes |-> k.sizes, descriptor |-> k.descriptor,
                  encrypted |-> FALSE, extra |-> "none",
                  name |-> <<96 + i>>, content |-> <<i, i>>]
Archives == UNION {{[i \in 1..n |-> EntryOf(kinds[i], i)] : kinds \in [1..n -> EntryKinds]} :
                   n \in 0..MaxEntries}
\* Inputs of the header specification: one entry of any method and with its
\* sizes anywhere, in front of a STORE entry.
zipOtherMethod == 12
HeaderKinds ==
    [method : {zipStore, zipDeflate, zipOtherMethod},
     sizes : {"header", "zip64", "none"},
     descriptor : {"none", "signed", "unsigned"}]
HeaderArchives ==
    {<<EntryOf(k, 1), EntryOf([method |-> zipStore, sizes |-> "header",
                                descriptor |-> "none"], 2)>> : k \in HeaderKinds}
\* Inputs of the field specification: one entry with any flags, any place of
\* its sizes and any extra area, in front of a STORE entry; the stream
\* begins with the signature of a local file header or with other bytes.
FieldKinds ==
    [method : {zipStore, zipDeflate, zipOtherMethod},
     sizes : {"header", "zip64", "none", "zip64-usize", "zip64-csize", "zip64-short",
              "header+zip64"},
     descriptor : {"none", "signed", "unsigned"},
     encrypted : BOOLEAN,
     extra : {"none", "other", "oversized", "oversized-last"}]
FieldEntry(k) == [method |-> k.method, sizes |-> k.sizes, descriptor |-> k.descriptor,
                  encrypted |-> k.encrypted, extra |-> k.extra,
                  name |-> <<97>>, content |-> <<1, 1>>]
FieldArchives ==
    {<<FieldEntry(k), EntryOf([method |-> zipStore, sizes |-> "header",
                                descriptor |-> "none"], 2)>> : k \in FieldKinds}
FirstSignatures ==
    {fileHeaderSignature, directoryHeaderSignature, directoryEndSignature,
     dataDescriptorSignature, <<4, 3, 75, 80>>, <<80, 75, 3, 5>>}
FieldStreams(archive) ==
    {sig \o SubSeq(ZipBytes(archive), 5, Len(ZipBytes(archive))) : sig \in FirstSignatures}

(***************************************************************************)
(* objdiff: FetchReportFiles and findReportFile.                           *)
(***************************************************************************)
Str_report == <<114, 101, 112, 111, 114, 116>>
Str_report_json == Str_report \o <<46, 106, 115, 111, 110>>
Str_report_binpb == Str_report \o <<46, 98, 105, 110, 112, 98>>
Str_report_pb == Str_report \o <<46, 112, 98>>
\* strings.HasSuffix
HasSuffix(s, suffix) ==
    Len(s) >= Len(suffix) /\ SubSeq(s, Len(s) - Len(suffix) + 1, Len(s)) = suffix
\* the comparison < of two Go strings: byte by byte, a proper prefix first
RECURSIVE StringLess(_, _)
StringLess(a, b) ==
    IF b = <<>> THEN FALSE
    ELSE IF a = <<>> THEN TRUE
    ELSE IF Head(a) # Head(b) THEN Head(a) < Head(b)
    ELSE StringLess(Tail(a), Tail(b))

\* artifactNameRegex ^(?P<version>[A-z0-9_\-]+)[_-]report(?:[_-].*)?$ :
\* the class [A-z0-9_\-] holds the codes 'A'..'z', the digits, '_' and '-';
\* '.' matches every character but the newline; of the ways to match, the
\* greedy + takes the longest version.
InVersionClass(c) == (c >= 65 /\ c <= 122) \/ (c >= 48 /\ c <= 57) \/ c = 95 \/ c = 45
IsSeparator(c) == c = 95 \/ c = 45
VersionEnds(name) ==
    {i \in 1..Len(name) :
        /\ \A j \in 1..i : InVersionClass(name[j])
        /\ Len(name) >= i + 7
        /\ IsSeparator(name[i + 1])
        /\ SubSeq(name, i + 2, i + 7) = Str_report
        /\ Len(name) > i + 7 => /\ IsSeparator(name[i + 8])
                                /\ \A j \in (i + 9)..Len(name) : name[j] # 10}
\* FindStringSubmatch and the "version" group: matched is FALSE for nil
FindVersion(name) ==
    IF VersionEnds(name) = {} THEN [matched |-> FALSE, version |-> <<>>]
    ELSE [matched |-> TRUE, version |-> SubSeq(name, 1, SetMax(VersionEnds(name)))]

\* proto.Marshal and proto.Unmarshal of a whole Report: the measures are
\* field 1, each unit is one occurrence of field 2.
RECURSIVE MarshalUnits(_)
MarshalUnits(units) ==
    IF units = <<>> THEN <<>>
    ELSE <<18, Len(MarshalUnit(Head(units)))>> \o MarshalUnit(Head(units))
         \o MarshalUnits(Tail(units))
MarshalReport(report) == MarshalSparseReport(report.Measures) \o MarshalUnits(report.Units)
RECURSIVE UnmarshalReportFrom(_, _)
UnmarshalReportFrom(b, acc) ==
    IF b = <<>> THEN [ok |-> TRUE, report |-> acc]
    ELSE IF Len(b) < 2 \/ Len(b) < 2 + b[2] \/ b[1] \notin {10, 18}
    THEN [ok |-> FALSE, report |-> NilReport]
    ELSE LET body == SubSeq(b, 3, 2 + b[2])
             rest == SubSeq(b, 3 + b[2], Len(b))
             m == UnmarshalMeasuresFrom(body, IF acc.Measures.present THEN acc.Measures
                                              ELSE [present |-> TRUE, matched_code |-> 0])
             u == UnmarshalUnit(body)
         IN  IF b[1] = 10
             THEN IF m.ok THEN UnmarshalReportFrom(rest, [acc EXCEPT !.Measures = m.measures])
                  ELSE [ok |-> FALSE, report |-> NilReport]
             ELSE IF u.ok
                  THEN UnmarshalReportFrom(rest, [acc EXCEPT !.Units = Append(@, u.unit)])
                  ELSE [ok |-> FALSE, report |-> NilReport]
UnmarshalReport(b) == UnmarshalReportFrom(b, NilReport)

\* JSON texts of the model: the empty object, an object of one member whose
\* key is one letter and whose value is one digit, the empty array; every
\* other text is not JSON.  The key "m" stands for the legacy report's
\* top-level matched_code; the current schema has no such member.
Json_EmptyObject == <<123, 125>>
Json_LegacyObject == <<123, 34, 109, 34, 58, 49, 125>>
Json_Array == <<91, 93>>
Json_Invalid == <<123>>
JsonDecode(b) ==
    IF b = Json_EmptyObject THEN [kind |-> "object", members |-> <<>>]
    ELSE IF /\ Len(b) = 7
            /\ <<b[1], b[2], b[4], b[5], b[7]>> = <<123, 34, 34, 58, 125>>
            /\ b[6] >= 48 /\ b[6] <= 57
    THEN [kind |-> "object", members |-> <<[key |-> b[3], value |-> b[6] - 48]>>]
    ELSE IF b = Json_Array THEN [kind |-> "array", members |-> <<>>]
    ELSE [kind |-> "invalid", members |-> <<>>]
\* protojson.Unmarshal: an object with a member the schema does not have is
\* an error (DiscardUnknown is off)
protojsonUnmarshal(b) ==
    LET decoded(v) ==
            IF v.kind = "object" /\ v.members = <<>>
            THEN [ok |-> TRUE, report |-> NilReport, err |-> NoError]
            ELSE [ok |-> FALSE, report |-> NilReport,
                  err |-> IF v.kind = "object" THEN NewError("proto: unknown field")
                          ELSE IF v.kind = "array"
                          THEN NewError("proto: unexpected token [")
                          ELSE NewError("proto: syntax error")]
    IN  decoded(JsonDecode(b))
\* json.Unmarshal into legacyReport and convert: members the struct does not
\* have are ignored; matched_code moves into the measures
legacyUnmarshal(b) ==
    LET decoded(v) ==
            IF v.kind = "object"
            THEN [ok |-> TRUE,
                  report |-> [Measures |->
                                [present |-> TRUE,
                                 matched_code |->
                                    IF v.members # <<>> /\ v.members[1].key = 109
                                    THEN v.members[1].value ELSE 0],
                              Units |-> <<>>],
                  err |-> NoError]
            ELSE [ok |-> FALSE, report |-> NilReport,
                  err |-> IF v.kind = "array"
                          THEN NewError("json: cannot unmarshal array into Go value")
                          ELSE NewError("unexpected end of JSON input")]
    IN  decoded(JsonDecode(b))
\* Faulty variant: when both parses fail, the error of the legacy parse.
ParseReportJson_LegacyError(data) ==
    LET second(legacy) ==
            IF legacy.ok THEN [err |-> NoError, report |-> legacy.report]
            ELSE [err |-> legacy.err, report |-> NilReport]
        first(current) ==
            IF current.ok THEN [err |-> NoError, report |-> current.report]
            ELSE second(legacyUnmarshal(data))
    IN  first(protojsonUnmarshal(data))
\* ParseReportJson: the current schema first, the legacy one if that fails;
\* if both fail, the error of the first
ParseReportJson(data) ==
    LET second(current, legacy) ==
            IF legacy.ok THEN [err |-> NoError, report |-> legacy.report]
            ELSE [err |-> current.err, report |-> NilReport]
        first(current) ==
            IF current.ok THEN [err |-> NoError, report |-> current.report]
            ELSE second(current, legacyUnmarshal(data))
    IN  first(protojsonUnmarshal(data))

(***************************************************************************)
(* objdiff: the conversion of legacy reports.                              *)
(* A uint64 is kept as its eight little-endian bytes; an optional field    *)
(* (a Go pointer) is a sequence of no element (nil) or of one.             *)
(***************************************************************************)
Zero64 == <<0, 0, 0, 0, 0, 0, 0, 0>>
maxUint64 == <<255, 255, 255, 255, 255, 255, 255, 255>>
\* n * m + c over the bytes of n: the carry out of byte i
RECURSIVE Carry64(_, _, _, _)
Carry64(n, m, c, i) == IF i = 0 THEN c ELSE (n[i] * m + Carry64(n, m, c, i - 1)) \div 256
\* the low 64 bits of n * m + c, and whether bits were lost
MulAdd64(n, m, c) ==
    [val |-> [i \in 1..8 |-> (n[i] * m + Carry64(n, m, c, i - 1)) % 256],
     over |-> Carry64(n, m, c, 8) > 0]

\* strconv's lower(c) and the value of a digit (-1: not a digit)
lower(c) == IF (c \div 32) % 2 = 1 THEN c ELSE c + 32
digitValue(c) ==
    IF c >= 48 /\ c <= 57 THEN c - 48
    ELSE IF lower(c) >= 97 /\ lower(c) <= 122 THEN lower(c) - 97 + 10
    ELSE -1
\* The loop of strconv.ParseUint(s, base, 64) from the i-th character on:
\* a character that is no digit of the base gives (0, ErrSyntax); a number
\* that does not fit, found when n >= cutoff (n * base overflows) or when
\* n1 < n (adding the digit overflows), gives (1<<64 - 1, ErrRange).
RECURSIVE ParseDigits(_, _, _, _)
ParseDigits(s, base, i, n) ==
    LET added(n1) ==
            IF n1.over THEN [value |-> maxUint64, err |-> "ErrRange"]
            ELSE ParseDigits(s, base, i + 1, n1.val)
        multiplied(d, nb) ==
            IF nb.over THEN [value |-> maxUint64, err |-> "ErrRange"]
            ELSE added(MulAdd64(nb.val, 1, d))
        digit(d) ==
            IF d < 0 \/ d >= base THEN [value |-> Zero64, err |-> "ErrSyntax"]
            ELSE multiplied(d, MulAdd64(n, base, 0))
    IN  IF i > Len(s) THEN [value |-> n, err |-> "nil"]
        ELSE digit(digitValue(s[i]))
ParseUint(s, base) ==
    IF s = <<>> THEN [value |-> Zero64, err |-> "ErrSyntax"]
    ELSE ParseDigits(s, base, 1, Zero64)

Str_0x == <<48, 120>>
HasPrefix(s, prefix) ==
    Len(s) >= Len(prefix) /\ SubSeq(s, 1, Len(prefix)) = prefix
\* legacyReportItem.convert, the address: the error of ParseUint is dropped,
\* and the result is &address, a pointer that is never nil.
convertAddress(Address) ==
    IF Address = <<>> THEN <<Zero64>>
    ELSE IF HasPrefix(Address[1], Str_0x)
    THEN <<ParseUint(SubSeq(Address[1], 3, Len(Address[1])), 16).value>>
    ELSE <<ParseUint(Address[1], 10).value>>
\* legacyReportItem.convert
convertItem(i) ==
    [Name |-> i.Name, DemangledName |-> i.DemangledName,
     Address |-> convertAddress(i.Address), Size |-> i.Size]
\* legacyReportUnit.convert
convertUnit(u) ==
    [Name |-> u.Name, Complete |-> u.Complete, ModuleName |-> u.ModuleName,
     ModuleId |-> u.ModuleID,
     Sections |-> [n \in DOMAIN u.Sections |-> convertItem(u.Sections[n])],
     Functions |-> [n \in DOMAIN u.Functions |-> convertItem(u.Functions[n])]]

\* Inputs of the legacy specification: the address strings, with what each
\* is (a number in the notation the schema allows, a text that is no such
\* number, a number of more than 64 bits) and, for a number, its value.
AddressInputs ==
    {
     [text |-> <<48, 120, 50, 65>>, is |-> "number",
      value |-> <<42, 0, 0, 0, 0, 0, 0, 0>>],
     [text |-> <<48, 120, 50, 97>>, is |-> "number",
      value |-> <<42, 0, 0, 0, 0, 0, 0, 0>>],
     [text |-> <<52, 50>>, is |-> "number",
      value |-> <<42, 0, 0, 0, 0, 0, 0, 0>>],
     [text |-> <<48, 52, 50>>, is |-> "number",
      value |-> <<42, 0, 0, 0, 0, 0, 0, 0>>],
     [text |-> <<48>>, is |-> "number",
      value |-> <<0, 0, 0, 0, 0, 0, 0, 0>>],
     [text |-> <<48, 120, 48>>, is |-> "number",
      value |-> <<0, 0, 0, 0, 0, 0, 0, 0>>],
     [text |-> <<122, 122>>, is |-> "unparsable",
      value |-> <<0, 0, 0, 0, 0, 0, 0, 0>>],
     [text |-> <<>>, is |-> "unparsable",
      value |-> <<0, 0, 0, 0, 0, 0, 0, 0>>],
     [text |-> <<48, 120>>, is |-> "unparsable",
      value |-> <<0, 0, 0, 0, 0, 0, 0, 0>>],
     [text |-> <<48, 88, 50, 65>>, is |-> "unparsable",
      value |-> <<0, 0, 0, 0, 0, 0, 0, 0>>],
     [text |-> <<50, 65>>, is |-> "unparsable",
      value |-> <<0, 0, 0, 0, 0, 0, 0, 0>>],
     [text |-> <<45, 49>>, is |-> "unparsable",
      value |-> <<0, 0, 0, 0, 0, 0, 0, 0>>],
     [text |-> <<43, 49>>, is |-> "unparsable",
      value |-> <<0, 0, 0, 0, 0, 0, 0, 0>>],
     [text |-> <<32, 52, 50>>, is |-> "unparsable",
      value |-> <<0, 0, 0, 0, 0, 0, 0, 0>>],
     [text |-> <<48, 120, 122, 122>>, is |-> "unparsable",
      value |-> <<0, 0, 0, 0, 0, 0, 0, 0>>],
     [text |-> <<49, 56, 52, 52, 54, 55, 52, 52, 48, 55, 51, 55, 48, 57, 53, 53, 49, 54, 49, 53>>, is |-> "number",
      value |-> <<255, 255, 255, 255, 255, 255, 255, 255>>],
     [text |-> <<48, 120, 70, 70, 70, 70, 70, 70, 70, 70, 70, 70, 70, 70, 70, 70, 70, 70>>, is |-> "number",
      value |-> <<255, 255, 255, 255, 255, 255, 255, 255>>],
     [text |-> <<49, 56, 52, 52, 54, 55, 52, 52, 48, 55, 51, 55, 48, 57, 53, 53, 49, 54, 49, 54>>, is |-> "too large",
      value |-> <<0, 0, 0, 0, 0, 0, 0, 0>>],
     [text |-> <<57, 57, 57, 57, 57, 57, 57, 57, 57, 57, 57, 57, 57, 57, 57, 57, 57, 57, 57, 57>>, is |-> "too large",
      value |-> <<0, 0, 0, 0, 0, 0, 0, 0>>],
     [text |-> <<48, 120, 49, 48, 48, 48, 48, 48, 48, 48, 48, 48, 48, 48, 48, 48, 48, 48, 48>>, is |-> "too large",
      value |-> <<0, 0, 0, 0, 0, 0, 0, 0>>]}
\* a legacy unit of one function whose address is the text of input a, or
\* none, and whose other optional fields are present or not
LegacyItem(address, demangled) ==
    [Name |-> <<102>>, DemangledName |-> demangled, Address |-> address, Size |-> 4]
LegacyUnits ==
    {[Name |-> <<117>>, Complete |-> complete, ModuleName |-> moduleName,
      ModuleID |-> moduleID, Sections |-> <<>>,
      Functions |-> <<LegacyItem(address, demangled)>>] :
        complete \in {<<>>, <<FALSE>>}, moduleName \in {<<>>, <<<<109>>>>},
        moduleID \in {<<>>, <<0>>}, demangled \in {<<>>, <<<<100>>>>},
        address \in {<<>>} \cup {<<a.text>> : a \in AddressInputs}}
JsonTexts == {Json_EmptyObject, Json_LegacyObject, Json_Array, Json_Invalid}

\* findReportFile: the loop over the entries of the stream s
RECURSIVE findReportFrom(_, _)
findReportFrom(s, zz) ==
    LET none(e) == [err |-> e, found |-> FALSE, report |-> NilReport]
        parsedJson(json) ==
            IF json.err # NoError THEN none(Wrap("failed to read report file", json.err))
            ELSE [err |-> NoError, found |-> TRUE, report |-> json.report]
        parsedProto(pb) ==
            IF ~pb.ok THEN none(NewError("proto: cannot parse invalid wire-format data"))
            ELSE [err |-> NoError, found |-> TRUE, report |-> pb.report]
        \* data, err := io.ReadAll(entry)
        read(name, rd) ==
            IF rd.err # NoError THEN none(Wrap("failed to read report file", rd.err))
            ELSE IF HasSuffix(name, Str_report_json)
            THEN parsedJson(ParseReportJson(rd.data))
            ELSE IF HasSuffix(name, Str_report_binpb) \/ HasSuffix(name, Str_report_pb)
            THEN parsedProto(UnmarshalReport(rd.data))
            ELSE findReportFrom(s, rd.z)
        \* entry, err := zr.Next()
        next(n) ==
            IF n.err = ioEOF THEN none(NoError)
            ELSE IF n.err # NoError THEN none(Wrap("failed to get next entry", n.err))
            ELSE read(n.entry.Name, ReaderReadAll(s, n.z))
    IN  next(ReaderNext(s, zz))
\* Faulty variant: an error of Next that wraps io.EOF ends the loop as io.EOF
\* itself does.
findReportFile_WrappedEOFEnds(s) ==
    LET found == findReportFrom(s, NewReader)
    IN  IF found.err.cause = "EOF" THEN [found EXCEPT !.err = NoError] ELSE found
findReportFile(s) == findReportFrom(s, NewReader)

\* InsertReport as one transaction that nothing interleaves with.
RECURSIVE InsertUnitRows(_, _, _)
InsertUnitRows(store, units, i) ==
    IF i > Len(units) THEN SqlOk(store)
    ELSE LET r == insertReportUnits(store, units[i])
         IN  IF r.err # "nil" THEN r ELSE InsertUnitRows(r.store, units, i + 1)
RECURSIVE InsertJunctionRows(_, _, _, _)
InsertJunctionRows(store, reportID, units, i) ==
    IF i > Len(units) THEN SqlOk(store)
    ELSE LET r == InsertReportReportUnit(store, reportID, units[i].Key, i - 1)
         IN  IF r.err # "nil" THEN r
             ELSE InsertJunctionRows(r.store, reportID, units, i + 1)
InsertReport(store, file, now) ==
    LET ser == Serialize(file.Report)
        p == UpsertProject(store, file.Project, now)
        u == InsertUnitRows(p.store, ser.Units, 1)
        r == InsertReportRow(u.store, file, ser.Data)
        j == InsertJunctionRows(r.store, r.id, ser.Units, 1)
        failed(e, working) == [err |-> e, store |-> RollbackTx(store, working)]
    IN  IF p.err # "nil" THEN failed(p.err, p.store)
        ELSE IF u.err # "nil" THEN failed(u.err, u.store)
        ELSE IF r.err # "nil" THEN failed(r.err, r.store)
        ELSE IF j.err # "nil" THEN failed(j.err, j.store)
        ELSE [err |-> "nil", store |-> CommitTx(store, j.store)]

\* sort.Slice(files, func(i, j) { return files[i].Version < files[j].Version }):
\* the sort is not stable, so every ordering of the files by version can come
Orderings(files) ==
    {s \in [DOMAIN files -> DOMAIN files] :
        /\ \A i, j \in DOMAIN files : i # j => s[i] # s[j]
        /\ \A i, j \in DOMAIN files :
             i < j => ~StringLess(files[s[j]].Version, files[s[i]].Version)}
\* Faulty variant: the files are returned in the order they were collected.
SortByVersion_Unsorted(files) == {files}
SortByVersion(files) == {[i \in DOMAIN files |-> files[s[i]]] : s \in Orderings(files)}

(***************************************************************************)
(* Inputs of the ingest specification: the artifacts of a workflow run,    *)
(* the archives their download gives, and the stores a run can find.       *)
(***************************************************************************)
MaxArtifacts == 2
Name_v1_report == Str_v1 \o <<95>> \o Str_report
Name_V1_report == Str_V1 \o <<95>> \o Str_report
Name_logs == <<108, 111, 103, 115>>
\* "v[1]_report"
Name_bracket_report == <<118, 91, 49, 93, 95>> \o Str_report
ArtifactNames == {Name_v1_report, Name_V1_report, Name_logs, Name_bracket_report}
ArtifactLists == UNION {[1..n -> ArtifactNames] : n \in 0..MaxArtifacts}
FetchProject == FirstUpload.Project
FetchCommit == [Sha |-> Str_abcd, Timestamp |-> 1]
\* an entry as the CI's archiver writes it: DEFLATE, sizes in a descriptor
StreamedEntry(name, content, sizes) ==
    [method |-> zipDeflate, sizes |-> sizes, descriptor |-> "signed",
     encrypted |-> FALSE, extra |-> "none", name |-> name, content |-> content]
BodyKinds == {"binpb", "units", "current", "legacy", "mismatch", "other", "other64", "cut"}
BodyArchive(kind) ==
    CASE kind \in {"binpb", "cut"} ->
           <<StreamedEntry(Str_report_binpb,
                 MarshalReport([Measures |-> [present |-> TRUE, matched_code |-> 1],
                                Units |-> <<>>]), "header")>>
      [] kind = "units" ->
           <<StreamedEntry(<<97, 47>> \o Str_report_pb,
                 MarshalReport([Measures |-> NilMeasures, Units |-> <<StoreUnit>>]),
                 "header")>>
      [] kind = "current" -> <<StreamedEntry(Str_report_json, Json_EmptyObject, "header")>>
      [] kind = "legacy" -> <<StreamedEntry(Str_report_json, Json_LegacyObject, "header")>>
      [] kind = "mismatch" -> <<StreamedEntry(Str_report_json, Json_Array, "header")>>
      [] kind = "other" -> <<StreamedEntry(<<97>>, <<1, 1>>, "header")>>
      [] kind = "other64" -> <<StreamedEntry(<<97>>, <<1, 1>>, "zip64")>>
\* the response body: the archive's stream; for "cut" the connection breaks
\* inside the entry's data
BodyBytes(kind) ==
    LET bytes == ZipBytes(BodyArchive(kind))
    IN  IF kind = "cut" THEN SubSeq(bytes, 1, Len(Str_report_binpb) + 32) ELSE bytes
\* the stores a run can find: empty, or holding the report of an earlier run
\* of the same commit, under the version as spelled then
StoredFile(version) ==
    [Project |-> FetchProject, Version |-> version, Commit |-> FetchCommit,
     Report |-> NilReport]
FetchStores ==
    {EmptyStore} \cup {InsertReport(EmptyStore, StoredFile(v), 0).store : v \in {Str_v1, Str_V1}}

(***************************************************************************)
(* handlers: the webhook handlers and backgroundTask.                      *)
(* Time is counted in ticks of half a minute.                              *)
(***************************************************************************)
MaxDeliveries == 2
MaxTime == 3
Minute == 2
Deliveries == 1..MaxDeliveries
\* what Handle finds: a payload that does not parse, an event it has nothing
\* to do for, a failure of NewInstallationClient, or an event to work on
EventKinds == {"malformed", "ignored", "noclient", "accepted"}
NilTask == [state |-> "none", parent |-> "none", started |-> 0, deadline |-> 0,
            ctxErr |-> "nil", result |-> "none", logged |-> FALSE]
\* Faulty variant: the task runs under the context of the webhook request.
backgroundTaskParent_Request == "request"
\* the context Handle gives to backgroundTask: h.taskCtx, which main derives
\* from context.Background() and cancels when the server has stopped
backgroundTaskParent == "root"
\* Faulty variant: Handle returns what the task returned.
HandleResult_OfTask(taskResult) == IF taskResult = "error" THEN "error" ELSE "nil"
\* the return value of Handle after the go statement: return nil
HandleResult(taskResult) == "nil"

(***************************************************************************)
(* objdiff: GenerateChanges.                                               *)
(***************************************************************************)
MaxWrites == 2
MaxExit == 1
\* config.ObjdiffPath: not set, a program, a path that cannot be started
ObjdiffPaths == {<<>>, <<111>>, <<47>>}
CanStart(path) == path = <<111>>
\* proto.Unmarshal of a Changes message: from is field 1, to is field 2, each
\* a message of measures
RECURSIVE UnmarshalChangesFrom(_, _)
UnmarshalChangesFrom(b, acc) ==
    IF b = <<>> THEN [ok |-> TRUE, changes |-> acc]
    ELSE IF Len(b) < 2 \/ Len(b) < 2 + b[2] \/ b[1] \notin {10, 18}
    THEN [ok |-> FALSE, changes |-> acc]
    ELSE LET m == UnmarshalMeasuresFrom(SubSeq(b, 3, 2 + b[2]),
                                        [present |-> TRUE, matched_code |-> 0])
             rest == SubSeq(b, 3 + b[2], Len(b))
         IN  IF ~m.ok THEN [ok |-> FALSE, changes |-> acc]
             ELSE IF b[1] = 10
             THEN UnmarshalChangesFrom(rest, [acc EXCEPT !.From = m.measures])
             ELSE UnmarshalChangesFrom(rest, [acc EXCEPT !.To = m.measures])
NilChanges == [From |-> NilMeasures, To |-> NilMeasures]
UnmarshalChanges(b) == UnmarshalChangesFrom(b, NilChanges)
\* what the differ writes in one write: a Changes message, bytes that are
\* none, a line of text
OutputChunks == {<<10, 2, 16, 1>>, <<18, 0>>, <<101, 114, 114>>}
RECURSIVE Concat(_)
Concat(chunks) == IF chunks = <<>> THEN <<>> ELSE Head(chunks).data \o Concat(Tail(chunks))
RECURSIVE SelectFd(_, _)
SelectFd(chunks, fd) ==
    IF chunks = <<>> THEN <<>>
    ELSE (IF Head(chunks).fd = fd THEN <<Head(chunks)>> ELSE <<>>) \o SelectFd(Tail(chunks), fd)
\* Faulty variant: only the standard output is collected (cmd.Output).
CombinedOutput_StdoutOnly(chunks) == Concat(SelectFd(chunks, "stdout"))
\* cmd.CombinedOutput: standard output and standard error go to one buffer,
\* in the order they were written
CombinedOutput(chunks) == Concat(chunks)
NilDifferResult == [changes |-> NilChanges, ok |-> FALSE, err |-> "nil", output |-> <<>>]

(***************************************************************************)
(* handlers: the two webhook handlers, processPR and upsertComment.        *)
(* One pull request is looked at.  A comment body is kept as the list of   *)
(* version changes it is written from.                                     *)
(***************************************************************************)
BotLogin == "decompal[bot]"
\* the background tasks that can work on the pull request at the same time
Tasks == {1, 2}
PRVersions == {"v1", "v2"}
\* the versions of a list of report files, as FetchReportFiles sorts them
VersionLists == {<<>>, <<"v1">>, <<"v2">>, <<"v1", "v2">>}
\* the SHA of the commit the task has ingested
HeadSha == "head"

\* the events delivered to the handlers: a payload that json.Unmarshal
\* rejects, or a workflow_run event with a status and, for a run of the pull
\* request's branch, the pull request in PullRequests, or a pull_request
\* event with an action; NewInstallationClient can fail
NilEvent == [type |-> "none", parses |-> FALSE, state |-> "", client |-> FALSE, prs |-> 0]
WorkflowRunEvents ==
    {[type |-> "workflow_run", parses |-> FALSE, state |-> "", client |-> TRUE, prs |-> 0]}
    \cup [type : {"workflow_run"}, parses : {TRUE},
          state : {"completed", "in_progress", "requested"},
          client : BOOLEAN, prs : {0, 1}]
PullRequestEvents ==
    {[type |-> "pull_request", parses |-> FALSE, state |-> "", client |-> TRUE, prs |-> 1]}
    \cup [type : {"pull_request"}, parses : {TRUE},
          state : {"opened", "synchronize", "closed"},
          client : BOOLEAN, prs : {1}]

\* Faulty variant: every workflow_run event that parses is worked on.
workflowRunHandle_AnyStatus(event) ==
    IF ~event.parses THEN "error"
    ELSE IF ~event.client THEN "error"
    ELSE "go"
\* workflowRunHandler.Handle up to its go statement: "error", "nil" (return
\* nil without a task) or "go"
workflowRunHandle(event) ==
    IF ~event.parses THEN "error"
    ELSE IF event.state # "completed" THEN "nil"
    ELSE IF ~event.client THEN "error"
    ELSE "go"
\* pullRequestHandler.Handle up to its go statement
pullRequestHandle(event) ==
    IF ~event.parses THEN "error"
    ELSE IF event.state # "opened" THEN "nil"
    ELSE IF ~event.client THEN "error"
    ELSE "go"

\* what processPR finds: the pull request's head SHA, whether GetCommit of
\* the base succeeds, the completed runs of the base commit, what
\* FetchReportFiles gives for the first of them, and for each version what
\* GenerateChanges and createChanges make of it ("fail": the differ fails,
\* "": no change, "s": a summary)
ComparableWorlds ==
    [prHead : {HeadSha}, getCommit : {TRUE}, runs : {"some"}, baseErr : {FALSE},
     baseFiles : VersionLists, differ : [PRVersions -> {"fail", "", "s"}]]
\* and the worlds in which one of the requests before the comparison fails
\* or finds nothing
Worlds ==
    ComparableWorlds
    \cup {[w EXCEPT !.prHead = "other"] : w \in ComparableWorlds}
    \cup {[w EXCEPT !.baseFiles = <<>>, !.baseErr = TRUE] : w \in ComparableWorlds}
    \cup {[w EXCEPT !.baseFiles = <<>>, !.runs = r] :
              w \in ComparableWorlds, r \in {"error", "none"}}
    \cup {[w EXCEPT !.baseFiles = <<>>, !.runs = "none", !.getCommit = FALSE] :
              w \in ComparableWorlds}
\* the loop over baseFiles and files: GenerateChanges for every version that
\* is in both, createChanges, and the non-empty bodies appended
RECURSIVE versionChanges(_, _, _, _)
versionChanges(baseFiles, files, differ, i) ==
    IF i > Len(baseFiles) THEN [err |-> FALSE, list |-> <<>>]
    ELSE IF \A j \in DOMAIN files : files[j] # baseFiles[i]
    THEN versionChanges(baseFiles, files, differ, i + 1)
    ELSE IF differ[baseFiles[i]] = "fail" THEN [err |-> TRUE, list |-> <<>>]
    ELSE LET rest == versionChanges(baseFiles, files, differ, i + 1)
             body == differ[baseFiles[i]]
         IN  IF rest.err THEN rest
             ELSE [err |-> FALSE,
                   list |-> (IF body = "" THEN <<>>
                             ELSE <<[Version |-> baseFiles[i], Body |-> body]>>) \o rest.list]
\* Faulty variant: the pull request's head is not compared with the commit.
processPR_AnyHead(headSha, files, w) ==
    LET vc == versionChanges(w.baseFiles, files, w.differ, 1)
    IN  IF ~w.getCommit \/ w.runs = "error" THEN [result |-> "error", body |-> <<>>]
        ELSE IF w.runs = "none" THEN [result |-> "nil", body |-> <<>>]
        ELSE IF w.baseErr THEN [result |-> "error", body |-> <<>>]
        ELSE IF w.baseFiles = <<>> THEN [result |-> "nil", body |-> <<>>]
        ELSE IF vc.err THEN [result |-> "error", body |-> <<>>]
        ELSE IF vc.list = <<>> THEN [result |-> "nil", body |-> <<>>]
        ELSE [result |-> "upsert", body |-> vc.list]
\* processPR up to its call of upsertComment: it returns nil or an error, or
\* goes on to upsertComment with the body
processPR(headSha, files, w) ==
    LET vc == versionChanges(w.baseFiles, files, w.differ, 1)
    IN  IF w.prHead # headSha THEN [result |-> "nil", body |-> <<>>]
        ELSE IF ~w.getCommit \/ w.runs = "error" THEN [result |-> "error", body |-> <<>>]
        ELSE IF w.runs = "none" THEN [result |-> "nil", body |-> <<>>]
        ELSE IF w.baseErr THEN [result |-> "error", body |-> <<>>]
        ELSE IF w.baseFiles = <<>> THEN [result |-> "nil", body |-> <<>>]
        ELSE IF vc.err THEN [result |-> "error", body |-> <<>>]
        ELSE IF vc.list = <<>> THEN [result |-> "nil", body |-> <<>>]
        ELSE [result |-> "upsert", body |-> vc.list]

\* the loop of upsertComment over the listed comments: the first comment of
\* decompal[bot] decides
RECURSIVE firstBotComment(_, _)
firstBotComment(existing, i) ==
    IF i > Len(existing) THEN 0
    ELSE IF existing[i].login = BotLogin THEN i
    ELSE firstBotComment(existing, i + 1)
\* Faulty variant: the comment is edited although its body is the new body.
upsertDecision_EditsEqualBody(existing, body) ==
    LET i == firstBotComment(existing, 1)
    IN  IF i = 0 THEN [write |-> "create", commentID |-> 0]
        ELSE [write |-> "edit", commentID |-> existing[i].id]
\* what upsertComment does after ListComments: nothing, EditComment of
\* commentID, or CreateComment
upsertDecision(existing, body) ==
    LET i == firstBotComment(existing, 1)
    IN  IF i = 0 THEN [write |-> "create", commentID |-> 0]
        ELSE IF existing[i].body = body THEN [write |-> "none", commentID |-> existing[i].id]
        ELSE [write |-> "edit", commentID |-> existing[i].id]

(***************************************************************************)
(* State.                                                                  *)
(*   db      the committed store (what a reader's query sees: WAL)         *)
(*   txdb    the store as seen inside the open write transaction           *)
(*   writer  the InsertReport call holding SQLite's write lock, 0 if none  *)
(*   pc, call, ncalls   the position, arguments and locals of each         *)
(*           InsertReport call; the number of calls started                *)
(*   rpc, rcall, rres   the position, arguments and result of GetReport    *)
(*   cphase .. cresult  the codec specification's state                    *)
(*   zr, zarchive       the stream given to the zip Reader and the archive *)
(*           it was written from                                           *)
(*   z, zlast, zout, zcalls   the Reader, the error of the last Next, the  *)
(*           entries the caller was given, the number of calls of Next     *)
(*   lunit, lout        a legacy report unit and what convert made of it   *)
(*   ljson, lparsed     a JSON text and what ParseReportJson returned      *)
(*   lpc                the position of the legacy specification           *)
(*   inserted           history: the files whose InsertReport returned nil *)
(*   zmark              what the last Next read (history): NoMark's fields *)
(*           and was, how far the previous entry had been read             *)
(*   fart, fidx, fpc    the artifacts FetchReportFiles was listed, the one *)
(*           it is at and its position in the loop body                    *)
(*   fver, fbody, ffiles, fres   its locals version and resp.Body, its     *)
(*           list files, and what became of the call                       *)
(*   fsrc, freq, fhit   history: where each element of files came from,    *)
(*           the requests sent, the report rows each lookup had before it  *)
(*   fprev   history: the files that earlier, failed ingests of the run    *)
(*           had downloaded and inserted, each with its artifact           *)
(*   now, alive, rootDone   the clock, whether the process runs, whether   *)
(*           the root context of the tasks is cancelled                    *)
(*   hpc, hev, hres, reqDone   per webhook delivery: the position of       *)
(*           Handle, the event, Handle's result, the request's context     *)
(*   task    per delivery: the background task and its context             *)
(*   gpath .. gres   GenerateChanges: the differ's path, the position of   *)
(*           the call, the process and what it wrote, the result           *)
(*   pev, ppc, plocal   per delivery about the pull request: the event,    *)
(*           the position of its handler or task, and the task's locals    *)
(*   comments, pwrites   the pull request's comments; history: the writes  *)
(*           of comments, each with the comments its task had listed       *)
(***************************************************************************)
VARIABLES db, txdb, writer, pc, call, ncalls, rpc, rcall, rres, inserted,
          cphase, creport, cser, caltered, cresult,
          zr, zarchive, z, zlast, zout, zcalls, zmark,
          fart, fpc, fidx, fver, fbody, ffiles, fsrc, freq, fhit, fres, fprev,
          now, alive, rootDone, hpc, hev, hres, reqDone, task,
          gpath, gpc, gstarted, gchunks, gexit, gres,
          lunit, ljson, lpc, lout, lparsed,
          pev, ppc, plocal, comments, pwrites

svars == <<db, txdb, writer, pc, call, ncalls, rpc, rcall, rres, inserted>>
cvars == <<cphase, creport, cser, caltered, cresult>>
zvars == <<zr, zarchive, z, zlast, zout, zcalls, zmark>>
fvars == <<fart, fpc, fidx, fver, fbody, ffiles, fsrc, freq, fhit, fres, fprev>>
tvars == <<now, alive, rootDone, hpc, hev, hres, reqDone, task>>
gvars == <<gpath, gpc, gstarted, gchunks, gexit, gres>>
lvars == <<lunit, ljson, lpc, lout, lparsed>>
pvars == <<pev, ppc, plocal, comments, pwrites>>
xvars == <<zvars, fvars, tvars, gvars, lvars, pvars>>
vars == <<db, txdb, writer, pc, call, ncalls, rpc, rcall, rres, inserted,
          cphase, creport, cser, caltered, cresult,
          zr, zarchive, z, zlast, zout, zcalls, zmark,
          fart, fpc, fidx, fver, fbody, ffiles, fsrc, freq, fhit, fres, fprev,
          now, alive, rootDone, hpc, hev, hres, reqDone, task,
          gpath, gpc, gstarted, gchunks, gexit, gres,
          lunit, ljson, lpc, lout, lparsed,
          pev, ppc, plocal, comments, pwrites>>

Writers == {1, 2}

NilCall == [file |-> NilFile, serialized |-> NilSerialized, idx |-> 0,
            reportID |-> 0, err |-> "nil"]
NilRead == [projectID |-> 0, version |-> <<>>, commitSha |-> <<>>,
            row |-> [id |-> 0, timestamp |-> 0, data |-> <<>>]]

StoreIdle ==
    /\ db = EmptyStore
    /\ txdb = EmptyStore
    /\ writer = 0
    /\ pc = [p \in Writers |-> "idle"]
    /\ call = [p \in Writers |-> NilCall]
    /\ ncalls = 0
    /\ rpc = "idle"
    /\ rcall = NilRead
    /\ rres = NotFound
    /\ inserted = {}

CodecIdle ==
    /\ cphase = "input"
    /\ creport = NilReport
    /\ cser = NilSerialized
    /\ caltered = FALSE
    /\ cresult = Failure("pending")

\* no call of Next yet
NilMark == [ddAt |-> -1, sigAt |-> -1, sig |-> <<>>, was |-> "none"]

ZipIdle ==
    /\ zr = <<>>
    /\ zarchive = <<>>
    /\ z = NewReader
    /\ zlast = NoError
    /\ zout = <<>>
    /\ zcalls = 0
    /\ zmark = NilMark

FetchRunning == [status |-> "running", err |-> NoError, files |-> <<>>]
FetchIdle ==
    /\ fart = <<>>
    /\ fpc = "done"
    /\ fidx = 1
    /\ fver = <<>>
    /\ fbody = "none"
    /\ ffiles = <<>>
    /\ fsrc = <<>>
    /\ freq = <<>>
    /\ fhit = <<>>
    /\ fres = FetchRunning
    /\ fprev = {}

TaskIdle ==
    /\ now = 0
    /\ alive = TRUE
    /\ rootDone = FALSE
    /\ hpc = [d \in Deliveries |-> "returned"]
    /\ hev = [d \in Deliveries |-> "none"]
    /\ hres = [d \in Deliveries |-> "none"]
    /\ reqDone = [d \in Deliveries |-> TRUE]
    /\ task = [d \in Deliveries |-> NilTask]

DifferIdle ==
    /\ gpath = <<>>
    /\ gpc = "done"
    /\ gstarted = FALSE
    /\ gchunks = <<>>
    /\ gexit = 0
    /\ gres = NilDifferResult

\* no legacy report is being converted
NilUnit == [Name |-> <<>>, Complete |-> <<>>, ModuleName |-> <<>>, ModuleId |-> <<>>,
            Sections |-> <<>>, Functions |-> <<>>]
LegacyIdle ==
    /\ lunit = [Name |-> <<>>, Complete |-> <<>>, ModuleName |-> <<>>, ModuleID |-> <<>>,
                Sections |-> <<>>, Functions |-> <<>>]
    /\ ljson = <<>>
    /\ lpc = "idle"
    /\ lout = NilUnit
    /\ lparsed = [err |-> NoError, report |-> NilReport]

\* no delivery has reached the handlers of the pull request
NilFacts == [headMatch |-> FALSE, reached |-> FALSE, baseRun |-> FALSE,
             baseReport |-> FALSE, summary |-> FALSE, differFailed |-> FALSE]
NilLocal == [hres |-> "none", result |-> "none", ingested |-> FALSE, files |-> <<>>,
             facts |-> NilFacts, body |-> <<>>, listed |-> <<>>, haveListed |-> FALSE,
             write |-> "none", commentID |-> 0]
CommentIdle ==
    /\ pev = [d \in Tasks |-> NilEvent]
    /\ ppc = [d \in Tasks |-> "none"]
    /\ plocal = [d \in Tasks |-> NilLocal]
    /\ comments = <<>>
    /\ pwrites = <<>>

OtherIdle == ZipIdle /\ FetchIdle /\ TaskIdle /\ DifferIdle /\ LegacyIdle /\ CommentIdle

(***************************************************************************)
(* InsertReport, one action per statement.                                 *)
(***************************************************************************)
\* Serialize, d.Begin(), defer tx.Rollback()
Begin(p) ==
    /\ pc[p] \in {"idle", "done"}
    /\ ncalls < MaxCalls
    /\ \E file \in ReportFiles :
         call' = [call EXCEPT ![p] = [NilCall EXCEPT !.file = file,
                                         !.serialized = Serialize(file.Report)]]
    /\ pc' = [pc EXCEPT ![p] = "project"]
    /\ ncalls' = ncalls + 1
    /\ UNCHANGED <<db, inserted, txdb, writer, rpc, rcall, rres, cvars, xvars>>

\* The deferred tx.Rollback() after a failed statement: the call returns err.
Abort(p, e) ==
    /\ txdb' = IF writer = p THEN RollbackTx(db, txdb) ELSE txdb
    /\ writer' = IF writer = p THEN 0 ELSE writer
    /\ pc' = [pc EXCEPT ![p] = "done"]
    /\ call' = [call EXCEPT ![p].err = e]
    /\ UNCHANGED <<db, inserted, ncalls, rpc, rcall, rres, cvars, xvars>>

\* Executes one statement of the transaction: on error the call aborts,
\* otherwise the transaction's view is replaced and the call moves on.
Step(p, r, nextpc, nextidx, id) ==
    IF r.err # "nil" THEN Abort(p, r.err)
    ELSE /\ txdb' = r.store
         /\ writer' = p
         /\ pc' = [pc EXCEPT ![p] = nextpc]
         /\ call' = [call EXCEPT ![p].idx = nextidx, ![p].reportID = id]
         /\ UNCHANGED <<db, inserted, ncalls, rpc, rcall, rres, cvars, xvars>>

\* The first write takes SQLite's write lock; it waits while another
\* transaction holds it.  current_timestamp is the number of calls begun.
DoUpsertProject(p) ==
    /\ pc[p] = "project"
    /\ writer = 0
    /\ Step(p, UpsertProject(txdb, call[p].file.Project, ncalls), "units", 1, 0)

DoInsertReportUnits(p) ==
    /\ pc[p] = "units"
    /\ call[p].idx <= Len(call[p].serialized.Units)
    /\ Step(p, insertReportUnits(txdb, call[p].serialized.Units[call[p].idx]),
            "units", call[p].idx + 1, 0)

\* Faulty variant: the report row is written outside the transaction and is
\* visible at once.
DoInsertReportRow_Autocommit(p) ==
    /\ pc[p] = "units"
    /\ call[p].idx > Len(call[p].serialized.Units)
    /\ LET r == InsertReportRow(txdb, call[p].file, call[p].serialized.Data)
       IN  IF r.err # "nil" THEN Abort(p, r.err)
           ELSE /\ txdb' = r.store
                /\ db' = r.store
                /\ writer' = p
                /\ pc' = [pc EXCEPT ![p] = "junction"]
                /\ call' = [call EXCEPT ![p].idx = 1, ![p].reportID = r.id]
                /\ UNCHANGED <<inserted, ncalls, rpc, rcall, rres, cvars, xvars>>
DoInsertReportRow(p) ==
    /\ pc[p] = "units"
    /\ call[p].idx > Len(call[p].serialized.Units)
    /\ LET r == InsertReportRow(txdb, call[p].file, call[p].serialized.Data)
       IN  Step(p, r, "junction", 1, r.id)

DoInsertReportReportUnit(p) ==
    /\ pc[p] = "junction"
    /\ call[p].idx <= Len(call[p].serialized.Units)
    /\ Step(p, InsertReportReportUnit(txdb, call[p].reportID,
                   call[p].serialized.Units[call[p].idx].Key, call[p].idx - 1),
            "junction", call[p].idx + 1, call[p].reportID)

DoCommit(p) ==
    /\ pc[p] = "junction"
    /\ call[p].idx > Len(call[p].serialized.Units)
    /\ db' = CommitTx(db, txdb)
    /\ txdb' = CommitTx(db, txdb)
    /\ writer' = 0
    /\ pc' = [pc EXCEPT ![p] = "done"]
    /\ inserted' = inserted \cup {call[p].file}
    /\ UNCHANGED <<call, ncalls, rpc, rcall, rres, cvars, xvars>>

\* The statement the call is at (or Begin, or Commit) fails: the context is
\* cancelled or its deadline passes, the lock wait times out, I/O fails.
Fail(p) ==
    /\ pc[p] \in {"project", "units", "junction"}
    /\ Abort(p, "cancelled")

(***************************************************************************)
(* GetReport: the report row is read by one query, the unit rows by a      *)
(* second one; each sees the store as committed at its time.               *)
(***************************************************************************)
GetReportRow ==
    /\ rpc \in {"idle", "done"}
    /\ ncalls < MaxCalls
    /\ ncalls' = ncalls + 1
    /\ \E projectID \in ProjectIDs, key \in ReportKeys :
         LET version == key[1]
             commitSha == key[2]
             rows == SelectReportRows(db, projectID, version, commitSha)
         IN  IF rows = {}
             THEN /\ rpc' = "done"
                  /\ rres' = NotFound
                  /\ rcall' = [NilRead EXCEPT !.projectID = projectID,
                                  !.version = version, !.commitSha = commitSha]
             ELSE \E row \in rows :
                  /\ rpc' = "units"
                  /\ rres' = NotFound
                  /\ rcall' = [projectID |-> projectID, version |-> version,
                               commitSha |-> commitSha,
                               row |-> [id |-> row.id, timestamp |-> row.timestamp,
                                        data |-> row.data]]
    /\ UNCHANGED <<db, inserted, txdb, writer, pc, call, cvars, xvars>>

GetReportUnits ==
    /\ rpc = "units"
    /\ \E units \in OrderedUnitRows(JoinedUnitRows(db, rcall.row.id)) :
         rres' = GetReportFromRows(rcall.row,
                     CHOOSE p \in db.projects : p.id = rcall.projectID,
                     units, rcall.version, rcall.commitSha)
    /\ rpc' = "done"
    /\ UNCHANGED <<db, inserted, txdb, writer, pc, call, ncalls, rcall, cvars, xvars>>

Init == StoreIdle /\ CodecIdle /\ OtherIdle

Next ==
    \/ \E p \in Writers : Begin(p)
    \/ \E p \in Writers : DoUpsertProject(p)
    \/ \E p \in Writers : DoInsertReportUnits(p)
    \/ \E p \in Writers : DoInsertReportRow(p)
    \/ \E p \in Writers : DoInsertReportReportUnit(p)
    \/ \E p \in Writers : DoCommit(p)
    \/ \E p \in Writers : Fail(p)
    \/ GetReportRow
    \/ GetReportUnits

Spec == Init /\ [][Next]_vars

(***************************************************************************)
(* Sequential specification: calls of InsertReport and of GetReport, one   *)
(* after the other, each from its first statement to its return.           *)
(***************************************************************************)
\* err := db.InsertReport(ctx, file): it returns nil, or the error of a
\* statement, or the context is cancelled before the commit
SeqInsertReport ==
    /\ ncalls < MaxCalls
    /\ ncalls' = ncalls + 1
    /\ \E file \in ReportFiles :
         \E r \in {InsertReport(db, file, ncalls + 1), [err |-> "cancelled", store |-> db]} :
             /\ db' = r.store
             /\ txdb' = r.store
             /\ inserted' = IF r.err = "nil" THEN inserted \cup {file} ELSE inserted
    /\ UNCHANGED <<writer, pc, call, rpc, rcall, rres, cvars, xvars>>

\* file, err := db.GetReport(ctx, projectID, version, commitSha)
SeqGetReport ==
    /\ \E projectID \in ProjectIDs, key \in ReportKeys :
         /\ rcall' = [NilRead EXCEPT !.projectID = projectID, !.version = key[1],
                                     !.commitSha = key[2]]
         /\ rres' \in GetReport(db, projectID, key[1], key[2])
    /\ rpc' = "done"
    /\ UNCHANGED <<db, txdb, inserted, writer, pc, call, ncalls, cvars, xvars>>

SeqNext == SeqInsertReport \/ SeqGetReport

SpecSeq == Init /\ [][SeqNext]_vars

(***************************************************************************)
(* Codec specification: a report is drawn, serialized, possibly one byte   *)
(* of one stored unit blob is altered, and the result is deserialized.     *)
(***************************************************************************)
AlteredBytes == {0, 1, 16, 36, 40, 44, 52, 255}

CodecInit ==
    /\ StoreIdle /\ OtherIdle
    /\ cphase = "input"
    /\ creport \in Reports
    /\ cser = NilSerialized
    /\ caltered = FALSE
    /\ cresult = Failure("pending")

CodecSerialize ==
    /\ cphase = "input"
    /\ cser' = Serialize(creport)
    /\ cphase' = "serialized"
    /\ UNCHANGED <<creport, caltered, cresult, svars, xvars>>

\* The environment alters one byte of one stored unit blob.
CodecAlterByte ==
    /\ cphase = "serialized"
    /\ ~caltered
    /\ \E i \in 1..Len(cser.Units) :
         \E j \in 1..Len(cser.Units[i].Data) :
           \E v \in AlteredBytes \ {cser.Units[i].Data[j]} :
             cser' = [cser EXCEPT !.Units[i].Data[j] = v]
    /\ caltered' = TRUE
    /\ UNCHANGED <<cphase, creport, cresult, svars, xvars>>

CodecDeserialize ==
    /\ cphase = "serialized"
    /\ cresult' = Deserialize(cser)
    /\ cphase' = "deserialized"
    /\ UNCHANGED <<creport, cser, caltered, svars, xvars>>

CodecNext == CodecSerialize \/ CodecAlterByte \/ CodecDeserialize

SpecCodec == CodecInit /\ [][CodecNext]_vars

(***************************************************************************)
(* Reader specification: an archive is drawn and its stream possibly cut   *)
(* short; the caller calls Next and may read the entry it was given.       *)
(***************************************************************************)
\* the stream of the archive, whole or ending early
Streams(archive) ==
    LET bytes == ZipBytes(archive) IN {SubSeq(bytes, 1, n) : n \in 0..Len(bytes)}

ZipInit ==
    /\ StoreIdle /\ CodecIdle /\ FetchIdle /\ TaskIdle /\ DifferIdle /\ LegacyIdle /\ CommentIdle
    /\ zarchive \in Archives
    /\ zr \in Streams(zarchive)
    /\ z = NewReader
    /\ zlast = NoError
    /\ zout = <<>>
    /\ zcalls = 0
    /\ zmark = NilMark

\* entry, err := zr.Next()
ZipNext ==
    /\ zcalls < Len(zarchive) + 2
    /\ LET n == ReaderNext(zr, z)
       IN  /\ z' = n.z
           /\ zlast' = n.err
           /\ zout' = IF n.err # NoError THEN zout
                      ELSE Append(zout, [Name |-> n.entry.Name, Method |-> n.entry.Method,
                                         r |-> n.entry.r, at |-> n.z.pos,
                                         read |-> FALSE, data |-> <<>>, err |-> NoError,
                                         end |-> n.z.pos])
           /\ zmark' = [ddAt |-> n.mark.ddAt, sigAt |-> n.mark.sigAt, sig |-> n.mark.sig,
                         was |-> IF z.curEntry = NilEntry THEN "none" ELSE z.read]
    /\ zcalls' = zcalls + 1
    /\ UNCHANGED <<zr, zarchive, svars, cvars, fvars, tvars, gvars, lvars, pvars>>

\* data, err := io.ReadAll(entry), for the entry the last Next returned
ZipReadAll ==
    /\ zlast = NoError
    /\ zout # <<>>
    /\ ~zout[Len(zout)].read
    /\ LET rd == ReaderReadAll(zr, z)
       IN  /\ z' = rd.z
           /\ zout' = [zout EXCEPT ![Len(zout)].read = TRUE,
                                   ![Len(zout)].data = @ \o rd.data,
                                   ![Len(zout)].err = rd.err,
                                   ![Len(zout)].end = rd.z.pos]
    /\ UNCHANGED <<zr, zarchive, zlast, zcalls, zmark, svars, cvars, fvars, tvars, gvars, lvars, pvars>>

\* n, err := entry.Read(p) that returns fewer bytes than the entry has left
ZipReadSome ==
    /\ zlast = NoError
    /\ zout # <<>>
    /\ ~zout[Len(zout)].read
    /\ z.read \in {"unread", "partial"}
    /\ \E k \in 1..(Len(ReadRest(zr, z).data) - 1) :
         LET rd == ReaderReadSome(zr, z, k)
         IN  /\ z' = rd.z
             /\ zout' = [zout EXCEPT ![Len(zout)].data = @ \o rd.data,
                                     ![Len(zout)].end = rd.z.pos]
    /\ UNCHANGED <<zr, zarchive, zlast, zcalls, zmark, svars, cvars, fvars, tvars, gvars, lvars, pvars>>

ZipNextStep == ZipNext \/ ZipReadAll

ZipReadStep == ZipNext \/ ZipReadAll \/ ZipReadSome

SpecZip == ZipInit /\ [][ZipNextStep]_vars

\* Header specification: the same reader on the archives of HeaderArchives.
HeaderInit ==
    /\ StoreIdle /\ CodecIdle /\ FetchIdle /\ TaskIdle /\ DifferIdle /\ LegacyIdle /\ CommentIdle
    /\ zarchive \in HeaderArchives
    /\ zr = ZipBytes(zarchive)
    /\ z = NewReader
    /\ zlast = NoError
    /\ zout = <<>>
    /\ zcalls = 0
    /\ zmark = NilMark

SpecZipHeader == HeaderInit /\ [][ZipNextStep]_vars

\* Field specification: the reader on the archives of FieldArchives, whose
\* stream begins with any of FirstSignatures.
FieldInit ==
    /\ StoreIdle /\ CodecIdle /\ FetchIdle /\ TaskIdle /\ DifferIdle /\ LegacyIdle /\ CommentIdle
    /\ zarchive \in FieldArchives
    /\ zr \in FieldStreams(zarchive)
    /\ z = NewReader
    /\ zlast = NoError
    /\ zout = <<>>
    /\ zcalls = 0
    /\ zmark = NilMark

SpecZipFields == FieldInit /\ [][ZipReadStep]_vars

\* Read specification: the whole stream of an archive of Archives, read by
\* a caller that reads all, a part or nothing of an entry before the next.
ReadInit ==
    /\ StoreIdle /\ CodecIdle /\ FetchIdle /\ TaskIdle /\ DifferIdle /\ LegacyIdle /\ CommentIdle
    /\ zarchive \in Archives
    /\ zr = ZipBytes(zarchive)
    /\ z = NewReader
    /\ zlast = NoError
    /\ zout = <<>>
    /\ zcalls = 0
    /\ zmark = NilMark

SpecZipRead == ReadInit /\ [][ZipReadStep]_vars

(***************************************************************************)
(* Legacy specification: a legacy unit is converted, then a JSON text is   *)
(* parsed.                                                                 *)
(***************************************************************************)
LegacyInit ==
    /\ StoreIdle /\ CodecIdle /\ ZipIdle /\ FetchIdle /\ TaskIdle /\ DifferIdle /\ CommentIdle
    /\ lunit \in LegacyUnits
    /\ ljson \in JsonTexts
    /\ lpc = "input"
    /\ lout = NilUnit
    /\ lparsed = [err |-> NoError, report |-> NilReport]

\* unit.convert()
LegacyConvert ==
    /\ lpc = "input"
    /\ lout' = convertUnit(lunit)
    /\ lpc' = "converted"
    /\ UNCHANGED <<lunit, ljson, lparsed, svars, cvars, zvars, fvars, tvars, gvars, pvars>>

\* err := ParseReportJson(data, report)
LegacyParse ==
    /\ lpc = "converted"
    /\ lparsed' = ParseReportJson(ljson)
    /\ lpc' = "parsed"
    /\ UNCHANGED <<lunit, ljson, lout, svars, cvars, zvars, fvars, tvars, gvars, pvars>>

LegacyNext == LegacyConvert \/ LegacyParse

SpecLegacy == LegacyInit /\ [][LegacyNext]_vars

(***************************************************************************)
(* Ingest specification: one call of FetchReportFiles, one action per      *)
(* request it makes.  The process of the caller can end (logger.Fatal).    *)
(***************************************************************************)
FetchInit ==
    /\ CodecIdle /\ ZipIdle /\ TaskIdle /\ DifferIdle /\ LegacyIdle /\ CommentIdle
    /\ db \in FetchStores
    /\ txdb = db
    /\ inserted = {f \in {StoredFile(Str_v1), StoredFile(Str_V1)} :
                       db = InsertReport(EmptyStore, f, 0).store}
    /\ writer = 0
    /\ pc = [p \in Writers |-> "idle"]
    /\ call = [p \in Writers |-> NilCall]
    /\ ncalls = 0
    /\ rpc = "idle"
    /\ rcall = NilRead
    /\ rres = NotFound
    /\ fart \in ArtifactLists
    /\ fpc = "list"
    /\ fidx = 1
    /\ fver = <<>>
    /\ fbody = "none"
    /\ ffiles = <<>>
    /\ fsrc = <<>>
    /\ freq = <<>>
    /\ fhit = <<>>
    /\ fres = FetchRunning
    /\ fprev = {}

\* return nil, err
FetchFail(err) ==
    /\ fres' = [status |-> "returned", err |-> err, files |-> <<>>]
    /\ fpc' = "done"

\* client.Actions.ListWorkflowRunArtifacts
FetchList ==
    /\ fpc = "list"
    /\ \E ok \in BOOLEAN :
         /\ freq' = Append(freq, [kind |-> "list", idx |-> 0, ok |-> ok, body |-> "none"])
         /\ IF ok THEN fpc' = "artifact" /\ fres' = fres
            ELSE FetchFail(Wrap("failed to list workflow run artifacts",
                                NewError("github: request failed")))
    /\ UNCHANGED <<fart, fprev, fidx, fver, fbody, ffiles, fsrc, fhit, svars, cvars, zvars, tvars, gvars, lvars, pvars>>

\* the artifact's name does not match artifactNameRegex: continue
FetchSkip ==
    /\ fpc = "artifact"
    /\ fidx <= Len(fart)
    /\ ~FindVersion(fart[fidx]).matched
    /\ fidx' = fidx + 1
    /\ UNCHANGED <<fart, fprev, fpc, fver, fbody, ffiles, fsrc, freq, fhit, fres,
                   svars, cvars, zvars, tvars, gvars, lvars, pvars>>

\* db.GetReport for the artifact's version: an error ends the process
\* (logger.Fatal), a stored report is appended, otherwise the download starts
FetchLookup ==
    /\ fpc = "artifact"
    /\ fidx <= Len(fart)
    /\ FindVersion(fart[fidx]).matched
    /\ LET version == FindVersion(fart[fidx]).version
       IN  /\ fver' = version
           /\ fhit' = Append(fhit,
                  [idx |-> fidx,
                   rows |-> {r \in db.reports :
                               /\ r.project_id = FetchProject.ID
                               /\ NoCase(r.version) = NoCase(version)
                               /\ NoCase(r.git_commit) = NoCase(FetchCommit.Sha)}])
           /\ \E res \in GetReport(db, FetchProject.ID, version, FetchCommit.Sha)
                         \cup {[found |-> FALSE, err |-> "context canceled", file |-> NilFile]} :
                IF res.err # "nil"
                THEN /\ fres' = [status |-> "exit", err |-> NewError(res.err), files |-> <<>>]
                     /\ fpc' = "done"
                     /\ UNCHANGED <<fidx, ffiles, fsrc, lvars, pvars>>
                ELSE IF res.found
                THEN /\ ffiles' = Append(ffiles, res.file)
                     /\ fsrc' = Append(fsrc, [idx |-> fidx, from |-> "store"])
                     /\ fidx' = fidx + 1
                     /\ UNCHANGED <<fpc, fres, lvars, pvars>>
                ELSE /\ fpc' = "url"
                     /\ UNCHANGED <<fidx, ffiles, fsrc, fres, lvars, pvars>>
    /\ UNCHANGED <<fart, fprev, fbody, freq, svars, cvars, zvars, tvars, gvars, lvars, pvars>>

\* client.Actions.DownloadArtifact: the request for the download URL
FetchUrl ==
    /\ fpc = "url"
    /\ \E ok \in BOOLEAN :
         /\ freq' = Append(freq, [kind |-> "url", idx |-> fidx, ok |-> ok, body |-> "none"])
         /\ IF ok THEN fpc' = "download" /\ fres' = fres
            ELSE FetchFail(Wrap("failed to get artifact download url",
                                NewError("github: request failed")))
    /\ UNCHANGED <<fart, fprev, fidx, fver, fbody, ffiles, fsrc, fhit, svars, cvars, zvars, tvars, gvars, lvars, pvars>>

\* http.DefaultClient.Do(req)
FetchDownload ==
    /\ fpc = "download"
    /\ \E body \in BodyKinds \cup {"none"} :
         /\ freq' = Append(freq, [kind |-> "get", idx |-> fidx, ok |-> body # "none",
                                  body |-> body])
         /\ fbody' = body
         /\ IF body # "none" THEN fpc' = "find" /\ fres' = fres
            ELSE FetchFail(Wrap("failed to download artifact", NewError("http: request failed")))
    /\ UNCHANGED <<fart, fprev, fidx, fver, ffiles, fsrc, fhit, svars, cvars, zvars, tvars, gvars, lvars, pvars>>

\* findReportFile(resp.Body), db.InsertReport, files = append(files, file)
FetchFind ==
    /\ fpc = "find"
    /\ LET found == findReportFile(BodyBytes(fbody))
           file == [Project |-> FetchProject, Version |-> fver, Commit |-> FetchCommit,
                    Report |-> found.report]
       IN  IF found.err # NoError
           THEN FetchFail(found.err) /\ UNCHANGED <<db, txdb, inserted, fidx, ffiles, fsrc, lvars, pvars>>
           ELSE IF ~found.found
           THEN /\ fidx' = fidx + 1
                /\ fpc' = "artifact"
                /\ UNCHANGED <<db, txdb, inserted, ffiles, fsrc, fres, lvars, pvars>>
           ELSE \E ins \in {InsertReport(db, file, 1), [err |-> "context canceled", store |-> db]} :
                  IF ins.err # "nil"
                  THEN /\ FetchFail(Wrap("failed to insert report", NewError(ins.err)))
                       /\ UNCHANGED <<db, txdb, inserted, fidx, ffiles, fsrc, lvars, pvars>>
                  ELSE /\ db' = ins.store
                       /\ inserted' = inserted \cup {file}
                       /\ txdb' = ins.store
                       /\ ffiles' = Append(ffiles, file)
                       /\ fsrc' = Append(fsrc, [idx |-> fidx, from |-> "download"])
                       /\ fidx' = fidx + 1
                       /\ fpc' = "artifact"
                       /\ fres' = fres
    /\ UNCHANGED <<fart, fprev, fver, fbody, freq, fhit, writer, pc, call, ncalls, rpc, rcall, rres,
                   cvars, zvars, tvars, gvars, lvars, pvars>>

\* sort.Slice(files, ...); return files, nil
FetchReturn ==
    /\ fpc = "artifact"
    /\ fidx > Len(fart)
    /\ \E sorted \in SortByVersion(ffiles) :
         fres' = [status |-> "returned", err |-> NoError, files |-> sorted]
    /\ fpc' = "done"
    /\ UNCHANGED <<fart, fprev, fidx, fver, fbody, ffiles, fsrc, freq, fhit,
                   svars, cvars, zvars, tvars, gvars, lvars, pvars>>

\* the ingest has failed and the run is ingested again: a later delivery of
\* its workflow_run event calls FetchReportFiles for the same run
FetchAgain ==
    /\ fpc = "done"
    /\ fres.status = "returned"
    /\ fres.err # NoError
    /\ fprev' = fprev \cup {[idx |-> fsrc[k].idx, file |-> ffiles[k]] :
                                  k \in {j \in DOMAIN fsrc : fsrc[j].from = "download"}}
    /\ fpc' = "list"
    /\ fidx' = 1
    /\ fver' = <<>>
    /\ fbody' = "none"
    /\ ffiles' = <<>>
    /\ fsrc' = <<>>
    /\ freq' = <<>>
    /\ fhit' = <<>>
    /\ fres' = FetchRunning
    /\ UNCHANGED <<fart, svars, cvars, zvars, tvars, gvars, lvars, pvars>>

FetchNext ==
    \/ FetchAgain
    \/ FetchList
    \/ FetchSkip
    \/ FetchLookup
    \/ FetchUrl
    \/ FetchDownload
    \/ FetchFind
    \/ FetchReturn

SpecFetch == FetchInit /\ [][FetchNext]_vars

(***************************************************************************)
(* Handler specification: webhook deliveries are handled, each accepted    *)
(* one starts a background task; time passes, the requests end, the server *)
(* stops.                                                                  *)
(***************************************************************************)
TaskInit ==
    /\ StoreIdle /\ CodecIdle /\ ZipIdle /\ FetchIdle /\ DifferIdle /\ LegacyIdle /\ CommentIdle
    /\ now = 0
    /\ alive = TRUE
    /\ rootDone = FALSE
    /\ hpc = [d \in Deliveries |-> "none"]
    /\ hev = [d \in Deliveries |-> "none"]
    /\ hres = [d \in Deliveries |-> "none"]
    /\ reqDone = [d \in Deliveries |-> FALSE]
    /\ task = [d \in Deliveries |-> NilTask]

\* the Done channel of a parent context is closed
ParentDone(d, parent) == IF parent = "root" THEN rootDone ELSE reqDone[d]
Running(d) == task[d].state = "running"

\* Handle up to its go statement: context.WithDeadline(taskCtx, now + minute)
\* is the first thing the task does
Handle(d) ==
    /\ alive
    /\ hpc[d] = "none"
    /\ \E ev \in EventKinds :
         /\ hev' = [hev EXCEPT ![d] = ev]
         /\ IF ev = "accepted"
            THEN /\ hpc' = [hpc EXCEPT ![d] = "dispatched"]
                 /\ hres' = hres
                 /\ task' = [task EXCEPT ![d] =
                        [state |-> "running", parent |-> backgroundTaskParent,
                         started |-> now, deadline |-> now + Minute,
                         ctxErr |-> IF ParentDone(d, backgroundTaskParent)
                                    THEN "Canceled" ELSE "nil",
                         result |-> "none", logged |-> FALSE]]
            ELSE /\ hpc' = [hpc EXCEPT ![d] = "returned"]
                 /\ hres' = [hres EXCEPT ![d] = IF ev = "ignored" THEN "nil" ELSE "error"]
                 /\ task' = task
    /\ UNCHANGED <<now, alive, rootDone, reqDone, svars, cvars, zvars, fvars, gvars, lvars, pvars>>

\* return nil, after the go statement
HandleReturn(d) ==
    /\ alive
    /\ hpc[d] = "dispatched"
    /\ hpc' = [hpc EXCEPT ![d] = "returned"]
    /\ hres' = [hres EXCEPT ![d] = HandleResult(task[d].result)]
    /\ UNCHANGED <<now, alive, rootDone, hev, reqDone, task, svars, cvars, zvars, fvars, gvars, lvars, pvars>>

\* the HTTP request is over: the server cancels the request's context
RequestEnds(d) ==
    /\ alive
    /\ hpc[d] = "returned"
    /\ ~reqDone[d]
    /\ reqDone' = [reqDone EXCEPT ![d] = TRUE]
    /\ task' = [task EXCEPT ![d] =
                   IF Running(d) /\ @.parent = "request" /\ @.ctxErr = "nil"
                   THEN [@ EXCEPT !.ctxErr = "Canceled"] ELSE @]
    /\ UNCHANGED <<now, alive, rootDone, hpc, hev, hres, svars, cvars, zvars, fvars, gvars, lvars, pvars>>

\* run(ctx) returns: an error is logged; the deferred cancel() runs
TaskReturns(d) ==
    /\ alive
    /\ Running(d)
    /\ \E r \in {"nil", "error"} :
         task' = [task EXCEPT ![d].state = "done",
                              ![d].result = r,
                              ![d].logged = (r = "error"),
                              ![d].ctxErr = IF @ = "nil" THEN "Canceled" ELSE @]
    /\ UNCHANGED <<now, alive, rootDone, hpc, hev, hres, reqDone,
                   svars, cvars, zvars, fvars, gvars, lvars, pvars>>

\* logger.Fatal inside run (FetchReportFiles): the process ends
TaskFatal(d) ==
    /\ alive
    /\ Running(d)
    /\ alive' = FALSE
    /\ UNCHANGED <<now, rootDone, hpc, hev, hres, reqDone, task,
                   svars, cvars, zvars, fvars, gvars, lvars, pvars>>

\* the timer of context.WithDeadline fires
DeadlineExpires(d) ==
    /\ alive
    /\ Running(d)
    /\ task[d].ctxErr = "nil"
    /\ now >= task[d].deadline
    /\ task' = [task EXCEPT ![d].ctxErr = "DeadlineExceeded"]
    /\ UNCHANGED <<now, alive, rootDone, hpc, hev, hres, reqDone,
                   svars, cvars, zvars, fvars, gvars, lvars, pvars>>

\* half a minute passes; a timer that is due fires first
Tick ==
    /\ alive
    /\ now < MaxTime
    /\ \A d \in Deliveries :
         ~(Running(d) /\ task[d].ctxErr = "nil" /\ now >= task[d].deadline)
    /\ now' = now + 1
    /\ UNCHANGED <<alive, rootDone, hpc, hev, hres, reqDone, task,
                   svars, cvars, zvars, fvars, gvars, lvars, pvars>>

\* server.Start returns and main's deferred taskCancel() runs
Shutdown ==
    /\ alive
    /\ ~rootDone
    /\ rootDone' = TRUE
    /\ task' = [d \in Deliveries |->
                   IF Running(d) /\ task[d].parent = "root" /\ task[d].ctxErr = "nil"
                   THEN [task[d] EXCEPT !.ctxErr = "Canceled"] ELSE task[d]]
    /\ UNCHANGED <<now, alive, hpc, hev, hres, reqDone, svars, cvars, zvars, fvars, gvars, lvars, pvars>>

TaskNext ==
    \/ \E d \in Deliveries : Handle(d)
    \/ \E d \in Deliveries : HandleReturn(d)
    \/ \E d \in Deliveries : RequestEnds(d)
    \/ \E d \in Deliveries : TaskReturns(d)
    \/ \E d \in Deliveries : TaskFatal(d)
    \/ \E d \in Deliveries : DeadlineExpires(d)
    \/ Tick
    \/ Shutdown

SpecTask == TaskInit /\ [][TaskNext]_vars

(***************************************************************************)
(* Differ specification: one call of GenerateChanges and the process it    *)
(* starts.                                                                 *)
(***************************************************************************)
DifferInit ==
    /\ StoreIdle /\ CodecIdle /\ ZipIdle /\ FetchIdle /\ TaskIdle /\ LegacyIdle /\ CommentIdle
    /\ gpath \in ObjdiffPaths
    /\ gpc = "call"
    /\ gstarted = FALSE
    /\ gchunks = <<>>
    /\ gexit = 0
    /\ gres = NilDifferResult

\* GenerateChanges up to cmd.CombinedOutput starting the process
DifferCall ==
    /\ gpc = "call"
    /\ IF gpath = <<>>
       THEN /\ gres' = [NilDifferResult EXCEPT !.err = "objdiff_path not set"]
            /\ gpc' = "done"
            /\ gstarted' = FALSE
       ELSE IF ~CanStart(gpath)
       THEN /\ gres' = [NilDifferResult EXCEPT !.err = "failed to generate changes"]
            /\ gpc' = "done"
            /\ gstarted' = FALSE
       ELSE /\ gres' = gres
            /\ gpc' = "running"
            /\ gstarted' = TRUE
    /\ UNCHANGED <<gpath, gchunks, gexit, svars, cvars, zvars, fvars, tvars, lvars, pvars>>

\* the differ writes to its standard output or its standard error
DifferWrite ==
    /\ gpc = "running"
    /\ Len(gchunks) < MaxWrites
    /\ \E fd \in {"stdout", "stderr"}, data \in OutputChunks :
         gchunks' = Append(gchunks, [fd |-> fd, data |-> data])
    /\ UNCHANGED <<gpath, gpc, gstarted, gexit, gres, svars, cvars, zvars, fvars, tvars, lvars, pvars>>

\* the differ exits
DifferExit ==
    /\ gpc = "running"
    /\ \E code \in 0..MaxExit : gexit' = code
    /\ gpc' = "exited"
    /\ UNCHANGED <<gpath, gstarted, gchunks, gres, svars, cvars, zvars, fvars, tvars, lvars, pvars>>

\* cmd.CombinedOutput returns; proto.Unmarshal(output, changes)
DifferReturn ==
    /\ gpc = "exited"
    /\ LET output == CombinedOutput(gchunks)
           decoded == UnmarshalChanges(output)
       IN  gres' = IF gexit # 0
                   THEN [NilDifferResult EXCEPT !.err = "failed to generate changes",
                                                !.output = output]
                   ELSE IF ~decoded.ok
                   THEN [NilDifferResult EXCEPT !.err = "failed to decode changes file"]
                   ELSE [changes |-> decoded.changes, ok |-> TRUE, err |-> "nil",
                         output |-> <<>>]
    /\ gpc' = "done"
    /\ UNCHANGED <<gpath, gstarted, gchunks, gexit, svars, cvars, zvars, fvars, tvars, lvars, pvars>>

DifferNext == DifferCall \/ DifferWrite \/ DifferExit \/ DifferReturn

SpecDiffer == DifferInit /\ [][DifferNext]_vars

(***************************************************************************)
(* Pull request specification: deliveries about one pull request reach the *)
(* two handlers; the tasks they start run concurrently, one action per     *)
(* part of a task that reads or writes the pull request's comments.        *)
(***************************************************************************)
PRInit ==
    /\ StoreIdle /\ CodecIdle /\ ZipIdle /\ FetchIdle /\ TaskIdle /\ DifferIdle /\ LegacyIdle
    /\ pev = [d \in Tasks |-> NilEvent]
    /\ ppc = [d \in Tasks |-> "none"]
    /\ plocal = [d \in Tasks |-> NilLocal]
    /\ comments \in {<<>>, <<[id |-> 1, login |-> "octocat",
                              body |-> <<[Version |-> "v1", Body |-> "s"]>>]>>}
    /\ pwrites = <<>>

\* Handle has returned r without a task, or has started the task at
\* position task and returns nil
Handled(d, event, r, taskpc) ==
    /\ pev' = [pev EXCEPT ![d] = event]
    /\ ppc' = [ppc EXCEPT ![d] = IF r = "go" THEN taskpc ELSE "returned"]
    /\ plocal' = [plocal EXCEPT ![d].hres = IF r = "go" THEN "nil" ELSE r]
    /\ UNCHANGED <<comments, pwrites, svars, cvars, zvars, fvars, tvars, gvars, lvars>>

HandleWorkflowRun(d) ==
    /\ ppc[d] = "none"
    /\ \E event \in WorkflowRunEvents :
         Handled(d, event, workflowRunHandle(event), "workflow_run")

HandlePullRequest(d) ==
    /\ ppc[d] = "none"
    /\ \E event \in PullRequestEvents :
         Handled(d, event, pullRequestHandle(event), "pull_request")

\* the task's function returns
Returns(d, local, result) ==
    /\ ppc' = [ppc EXCEPT ![d] = "done"]
    /\ plocal' = [plocal EXCEPT ![d] = [local EXCEPT !.result = result]]

\* the task of a workflow_run event up to processPR: FetchReportFiles for
\* the run, then the pull requests of the run
WorkflowRunTask(d) ==
    /\ ppc[d] = "workflow_run"
    /\ \E err \in BOOLEAN, files \in VersionLists :
         LET local == [plocal[d] EXCEPT !.ingested = TRUE, !.files = files]
         IN  IF err THEN Returns(d, [local EXCEPT !.files = <<>>], "error")
             ELSE IF files = <<>> \/ pev[d].prs = 0 THEN Returns(d, local, "nil")
             ELSE /\ ppc' = [ppc EXCEPT ![d] = "processPR"]
                  /\ plocal' = [plocal EXCEPT ![d] = local]
    /\ UNCHANGED <<pev, comments, pwrites, svars, cvars, zvars, fvars, tvars, gvars, lvars>>

\* the task of a pull_request event up to processPR: GetCommit of the head,
\* ListRepositoryWorkflowRuns, FetchReportFiles for the runs until one has
\* report files
PullRequestTask(d) ==
    /\ ppc[d] = "pull_request"
    /\ \E getCommit \in BOOLEAN, runs \in {"error", "none", "some"},
          err \in BOOLEAN, files \in VersionLists :
         LET local == [plocal[d] EXCEPT !.ingested = TRUE, !.files = files]
         IN  IF ~getCommit \/ runs = "error" THEN Returns(d, plocal[d], "error")
             ELSE IF runs = "none" THEN Returns(d, plocal[d], "nil")
             ELSE IF err THEN Returns(d, [local EXCEPT !.files = <<>>], "error")
             ELSE IF files = <<>> THEN Returns(d, local, "nil")
             ELSE /\ ppc' = [ppc EXCEPT ![d] = "processPR"]
                  /\ plocal' = [plocal EXCEPT ![d] = local]
    /\ UNCHANGED <<pev, comments, pwrites, svars, cvars, zvars, fvars, tvars, gvars, lvars>>

\* what is the case when processPR runs (history)
Facts(w, files) ==
    LET shared == {v \in PRVersions : /\ \E i \in DOMAIN files : files[i] = v
                                      /\ \E i \in DOMAIN w.baseFiles : w.baseFiles[i] = v}
    IN  [headMatch |-> w.prHead = HeadSha,
         reached |-> /\ w.prHead = HeadSha /\ w.getCommit /\ w.runs = "some"
                     /\ ~w.baseErr /\ w.baseFiles # <<>>,
         baseRun |-> w.runs = "some",
         baseReport |-> ~w.baseErr /\ w.baseFiles # <<>>,
         summary |-> \E v \in shared : w.differ[v] = "s",
         differFailed |-> \E v \in shared : w.differ[v] = "fail"]

\* processPR up to upsertComment; the commit of a pull_request task is the
\* commit GetCommit gave for the pull request's head
DoProcessPR(d) ==
    /\ ppc[d] = "processPR"
    /\ \E w \in Worlds :
         /\ pev[d].type = "pull_request" => w.prHead = HeadSha
         /\ LET r == processPR(HeadSha, plocal[d].files, w)
                local == [plocal[d] EXCEPT !.facts = Facts(w, plocal[d].files),
                                           !.body = r.body]
            IN  IF r.result # "upsert" THEN Returns(d, local, r.result)
                ELSE /\ ppc' = [ppc EXCEPT ![d] = "list"]
                     /\ plocal' = [plocal EXCEPT ![d] = local]
    /\ UNCHANGED <<pev, comments, pwrites, svars, cvars, zvars, fvars, tvars, gvars, lvars>>

\* upsertComment: client.Issues.ListComments and the loop over its result
UpsertList(d) ==
    /\ ppc[d] = "list"
    /\ \E ok \in BOOLEAN :
         IF ~ok THEN Returns(d, plocal[d], "error")
         ELSE LET dec == upsertDecision(comments, plocal[d].body)
                  local == [plocal[d] EXCEPT !.listed = comments, !.haveListed = TRUE,
                                             !.write = dec.write,
                                             !.commentID = dec.commentID]
              IN  IF dec.write = "none" THEN Returns(d, local, "nil")
                  ELSE /\ ppc' = [ppc EXCEPT ![d] = "write"]
                       /\ plocal' = [plocal EXCEPT ![d] = local]
    /\ UNCHANGED <<pev, comments, pwrites, svars, cvars, zvars, fvars, tvars, gvars, lvars>>

\* upsertComment: client.Issues.EditComment or client.Issues.CreateComment
UpsertWrite(d) ==
    /\ ppc[d] = "write"
    /\ \E ok \in BOOLEAN :
         IF ~ok THEN Returns(d, plocal[d], "error") /\ UNCHANGED <<comments, pwrites>>
         ELSE LET id == IF plocal[d].write = "edit" THEN plocal[d].commentID
                        ELSE Len(comments) + 1
              IN  /\ comments' =
                        IF plocal[d].write = "edit"
                        THEN [i \in DOMAIN comments |->
                                 IF comments[i].id = id
                                 THEN [comments[i] EXCEPT !.body = plocal[d].body]
                                 ELSE comments[i]]
                        ELSE Append(comments, [id |-> id, login |-> BotLogin,
                                               body |-> plocal[d].body])
                  /\ pwrites' = Append(pwrites,
                        [task |-> d, write |-> plocal[d].write, commentID |-> id,
                         body |-> plocal[d].body, listed |-> plocal[d].listed])
                  /\ Returns(d, plocal[d], "nil")
    /\ UNCHANGED <<pev, svars, cvars, zvars, fvars, tvars, gvars, lvars>>

PRNext ==
    \/ \E d \in Tasks : HandleWorkflowRun(d)
    \/ \E d \in Tasks : HandlePullRequest(d)
    \/ \E d \in Tasks : WorkflowRunTask(d)
    \/ \E d \in Tasks : PullRequestTask(d)
    \/ \E d \in Tasks : DoProcessPR(d)
    \/ \E d \in Tasks : UpsertList(d)
    \/ \E d \in Tasks : UpsertWrite(d)

SpecPR == PRInit /\ [][PRNext]_vars

(***************************************************************************)
(* Properties.                                                             *)
(***************************************************************************)
Returned(p) == pc[p] = "done"
\* The call ran to its end without a failure from outside (cancellation, I/O).
Undisturbed(p) == Returned(p) /\ call[p].err # "cancelled"
Committed(p) == Returned(p) /\ call[p].err = "nil"
SameReportKey(f, projectID, version, commitSha) ==
    /\ f.Project.ID = projectID
    /\ NoCase(f.Version) = NoCase(version)
    /\ NoCase(f.Commit.Sha) = NoCase(commitSha)
FileOfRow(f, r) == SameReportKey(f, r.project_id, r.version, r.git_commit)
Found(f) == [found |-> TRUE, err |-> "nil", file |-> f]
\* The step in which call p commits.
CommitStep(p) == pc[p] = "junction" /\ pc'[p] = "done" /\ call'[p].err = "nil"
\* The step in which call p returns an error.
AbortStep(p) == pc[p] # "done" /\ pc'[p] = "done" /\ call'[p].err # "nil"
OnlyCall(p) == Returned(p) /\ \A q \in Writers \ {p} : pc[q] = "idle"

\* C1: InsertReport followed by GetReport on the same (project_id, version,
\* commit_sha) returns the inserted report, its units in position order, one
\* per position 0..n-1 (a unit that occurs at two positions is fetched twice).
C1_InsertThenGetReturnsUnitsInOrder ==
    \A p \in Writers :
        (OnlyCall(p) /\ Undisturbed(p)) =>
            GetReport(db, call[p].file.Project.ID, call[p].file.Version,
                      call[p].file.Commit.Sha) = {Found(call[p].file)}

\* C2: for every report R, Deserialize(Serialize(R)) succeeds and returns a
\* report with the same Measures and the same units in the same order.
C2_DeserializeSerializeIsIdentity ==
    (cphase = "deserialized" /\ ~caltered) =>
        cresult = [err |-> "nil", report |-> creport]
C2_Witness ==
    /\ cphase = "deserialized" /\ ~caltered
    /\ cresult.err = "nil"
    /\ Len(creport.Units) = 2
    /\ creport.Units[1] = creport.Units[2]
    /\ creport.Measures.present

\* C3: the reports table (committed, or as seen inside a transaction) holds at
\* most one row per (project_id, version, commit_sha), version and commit_sha
\* compared without regard to letter case.
OneRowPerReportKey(store) ==
    \A r1, r2 \in store.reports :
        (/\ r1.project_id = r2.project_id
         /\ NoCase(r1.version) = NoCase(r2.version)
         /\ NoCase(r1.git_commit) = NoCase(r2.git_commit)) => r1 = r2
C3_OneReportPerKeyIgnoringCase == OneRowPerReportKey(db) /\ OneRowPerReportKey(txdb)
C3_Witness ==
    /\ Committed(1) /\ Committed(2)
    /\ call[1].file.Version = Str_v1 /\ call[1].file.Commit.Sha = Str_abcd
    /\ call[2].file.Version = Str_V1 /\ call[2].file.Commit.Sha = Str_ABCD
    /\ Cardinality(db.reports) = 1

\* C4: GetReport (and ReportExists) called with a version or commit_sha that
\* differs only in letter case from the stored one finds the stored report.
C4_FetchIgnoresCase ==
    \A r \in db.reports : \A key \in ReportKeys :
        (NoCase(key[1]) = NoCase(r.version) /\ NoCase(key[2]) = NoCase(r.git_commit)) =>
            /\ ReportExists(db, r.project_id, key[1], key[2])
            /\ \A g \in GetReport(db, r.project_id, key[1], key[2]) : g.found

UnitKeysUnique(store) ==
    \A u1, u2 \in store.report_units : u1.id = u2.id => u1 = u2
C6_UnitsDeduplicatedAcrossCommits ==
    /\ UnitKeysUnique(db) /\ UnitKeysUnique(txdb)
    /\ (/\ ncalls = 2
        /\ Undisturbed(1) /\ Undisturbed(2)
        /\ call[1].file.Version = Str_v1 /\ call[1].file.Commit.Sha = Str_abcd
        /\ call[2].file.Version = Str_v1 /\ call[2].file.Commit.Sha = Str_ef01
        /\ call[1].file.Report.Units = <<StoreUnit>>
        /\ call[2].file.Report.Units = <<StoreUnit>>)
       => /\ Cardinality(db.reports) = 2
          /\ Cardinality(db.report_units) = 1
          /\ Cardinality(db.report_report_units) = 2

\* C7: in every state of the store, inside a transaction and after a failed
\* insert included, every junction row references an existing report row and
\* an existing unit row; and once InsertReport has written the report row,
\* every unit row its junction rows are going to reference is written.
JunctionRowsResolve(store) ==
    \A j \in store.report_report_units :
        /\ \E r \in store.reports : r.id = j.report_id
        /\ \E u \in store.report_units : u.id = j.report_unit_id
C8_AlteredBlobGivesKeyMismatch ==
    (cphase = "deserialized" /\ caltered) => cresult.err = "unit key mismatch"
\* C8 (amended): a fetch never returns a unit other than the one stored:
\* after one byte of a stored unit blob is altered it fails with the
\* key-mismatch error or with the decompressor's error, or, when the altered
\* blob still decompresses to the stored bytes, returns the stored report.
C8_AlteredBlobNeverGivesOtherData ==
    cphase = "deserialized" =>
        /\ cresult.err = "nil" => cresult.report = creport
        /\ caltered => cresult.err \in {"unit key mismatch", "zstd", "nil"}
C8_Witness ==
    /\ cphase = "deserialized" /\ caltered
    /\ cresult.err = "unit key mismatch"

\* C9: when InsertReport fails or is cancelled at any step, the store holds
\* exactly the rows it held before: nothing the call wrote is committed, and
\* nothing of it is left for the next transaction to see (an open transaction
\* of another call is not touched).
C9_FailedInsertLeavesStoreUnchanged ==
    [][\A p \in Writers :
          AbortStep(p) =>
              /\ db' = db
              /\ txdb' = IF writer = p THEN db ELSE txdb]_vars
C9_Witness ==
    \E p \in Writers :
        /\ Returned(p) /\ call[p].err = "cancelled"
        /\ call[p].reportID > 0
        /\ Len(call[p].serialized.Units) > 0
        /\ \A q \in Writers \ {p} : pc[q] = "idle"
        /\ db = EmptyStore /\ txdb = EmptyStore

\* C10: two InsertReport calls for the same (project_id, version, commit_sha)
\* and the same report, in any interleaving, both return success, and the
\* store ends with one report row, one row per distinct unit and one junction
\* row per position, with the timestamp of the insert that committed last.
C10_ConcurrentSameInsertsBothSucceed ==
    (/\ ncalls = 2
     /\ Undisturbed(1) /\ Undisturbed(2)
     /\ call[1].file = call[2].file)
    => /\ Committed(1) /\ Committed(2)
       /\ \E r \in db.reports :
            /\ db.reports = {r}
            /\ r.timestamp = call[1].file.Commit.Timestamp
       /\ Cardinality(db.report_units) =
              Cardinality({call[1].serialized.Units[i].Key : i \in DOMAIN call[1].serialized.Units})
       /\ Cardinality(db.report_report_units) = Len(call[1].serialized.Units)

\* C30: the committed store has one projects row per id; a call that commits
\* leaves the row of its project with the owner and the name it was given;
\* no step removes a project row or changes its id or its created_at.
C30_OneProjectRowPerIdNeverDeleted ==
    [][/\ \A r1, r2 \in db'.projects : r1.id = r2.id => r1 = r2
       /\ \A r \in db.projects :
             \E kept \in db'.projects : kept.id = r.id /\ kept.created_at = r.created_at
       /\ \A p \in Writers :
             CommitStep(p) =>
                \E r \in db'.projects :
                   /\ r.id = call[p].file.Project.ID
                   /\ r.owner = call[p].file.Project.Owner
                   /\ r.name = call[p].file.Project.Name]_vars
\* two calls with different names for the project have committed, the second
\* begun after the first had written the row: the row is still the first's
C30_Witness ==
    /\ Committed(1) /\ Committed(2)
    /\ call[1].file.Project.Name # call[2].file.Project.Name
    /\ \E r \in db.projects :
          /\ db.projects = {r}
          /\ r.created_at = 1
          /\ r.name = LaterUpload.Project.Name

(***************************************************************************)
(* Properties of GetReport after InsertReport (SpecSeq).                   *)
(***************************************************************************)
\* the files whose InsertReport has returned nil under the key of the fetch
InsertedUnder(projectID, version, commitSha) ==
    {f \in inserted : /\ f.Project.ID = projectID
                      /\ f.Version = version
                      /\ f.Commit.Sha = commitSha}
\* the files inserted under a key that the store's unique index takes for the
\* same key
InsertedUnderIgnoringCase(projectID, version, commitSha) ==
    {f \in inserted : /\ f.Project.ID = projectID
                      /\ NoCase(f.Version) = NoCase(version)
                      /\ NoCase(f.Commit.Sha) = NoCase(commitSha)}

WritingFetchedKey(p) ==
    /\ pc[p] = "junction"
    /\ writer = p
    /\ call[p].file.Project.ID = rcall.projectID
    /\ call[p].file.Version = rcall.version
    /\ call[p].file.Commit.Sha = rcall.commitSha

Whole == zr = ZipBytes(zarchive)
\* the stream ends inside the k-th entry of the archive
CutInside(k) ==
    /\ EntryEnd(zarchive, k - 1) < Len(zr)
    /\ Len(zr) < EntryEnd(zarchive, k)
\* an error that tells of an unexpected end of the input
Truncated(err) ==
    \/ err.cause = "ErrUnexpectedEOF"
    \/ err.cause = "EOF" /\ err.wraps # <<>>
\* the i-th entry given to the caller is the i-th entry of the archive, and
\* if it was read, it was read without error and gave the entry's content
Intact(i) ==
    /\ zout[i].Name = zarchive[i].name
    /\ zout[i].read => zout[i].err = NoError /\ zout[i].data = zarchive[i].content
\* a DEFLATE entry read from the upstream itself ended right after its
\* final block
StoppedAtEndMarker(i) ==
    zout[i].read /\ zout[i].r = "flate-upstream"
        => zout[i].end = zout[i].at + Len(Deflate(zarchive[i].content))

\* C12: for a whole stream of N entries (STORE or DEFLATE, ZIP64 or not, with
\* or without data descriptor) the calls of Next give the N entries in order,
\* each with its own content, and then io.EOF; a DEFLATE entry of unknown
\* size leaves the reader right after the DEFLATE end marker.
C12_WholeStreamYieldsEveryEntryInOrder ==
    Whole =>
        /\ zcalls <= Len(zarchive) => zlast = NoError /\ Len(zout) = zcalls
        /\ zcalls > Len(zarchive) => zlast = ioEOF /\ Len(zout) = Len(zarchive)
        /\ \A i \in DOMAIN zout : Intact(i) /\ StoppedAtEndMarker(i)

\* C13: when the stream ends inside the k-th entry, the entries before it
\* are given intact, the k-th entry is never read to its end without an
\* error unless all of its data was there (the stream ends in its data
\* descriptor), Next never returns io.EOF, and from the k-th call on what
\* Next returns instead of an entry is a truncation error.
C13_CutStreamGivesTruncationError ==
    \A k \in DOMAIN zarchive :
        CutInside(k) =>
            /\ zlast # ioEOF
            /\ Len(zout) <= k
            /\ \A i \in DOMAIN zout : i < k => Intact(i)
            /\ Len(zout) = k /\ zout[k].read
                 => \/ Truncated(zout[k].err)
                    \/ zout[k].err = NoError /\ zout[k].data = zarchive[k].content
            /\ zcalls >= k /\ zlast # NoError => Truncated(zlast)

\* the entry whose header the header specification reads first
FirstEntry == zarchive[1]
FirstHeaderRead == zcalls = 1
\* the header's compressed size is maxed out and no ZIP64 field gives it
SizeMissing == FirstEntry.sizes = "none"
\* readEntry got as far as its check of the compressed size
HeaderSupported == FirstEntry.descriptor # "none" => FirstEntry.method = zipDeflate

\* C20 as stated: with the compressed size given by neither the header nor
\* a ZIP64 field, the entry is an error if and only if it is not DEFLATE.
C20_MissingSizeIsErrorUnlessDeflate ==
    FirstHeaderRead /\ SizeMissing =>
        (zlast # NoError <=> FirstEntry.method # zipDeflate)

\* C20 amended: with the compressed size maxed out in the header and given by
\* no ZIP64 field the entry is a format error whatever its method; a DEFLATE
\* entry whose compressed size is given as zero is accepted, and reading it
\* ends right after DEFLATE's own end marker with the entry's content.
C20_MissingSizeIsFormatErrorZeroSizeReadsToEndMarker ==
    FirstHeaderRead =>
        /\ SizeMissing /\ HeaderSupported
             => zlast = Wrap("unable to read zip file header", zipErrFormat)
        /\ ~SizeMissing /\ FirstEntry.method = zipDeflate /\ FirstEntry.descriptor # "none"
             => /\ zlast = NoError
                /\ zout[1].r = "flate-upstream"
                /\ Intact(1) /\ StoppedAtEndMarker(1)

C20_Witness ==
    /\ FirstHeaderRead /\ SizeMissing
    /\ FirstEntry.method = zipDeflate
    /\ zlast.cause = "ErrFormat"

(***************************************************************************)
(* Properties of the header's fields (SpecZipFields).                      *)
(***************************************************************************)
\* the stream begins with a local file header, and Next was called once
FirstFileHeaderRead == zcalls = 1 /\ SubSeq(zr, 1, 4) = fileHeaderSignature
FlagsSupported == ~FirstEntry.encrypted /\ HeaderSupported
MethodSupported == FirstEntry.method \in {zipStore, zipDeflate}
Oversized == FirstEntry.extra \in {"oversized", "oversized-last"}
\* the scan of the extra area comes to a ZIP64 record
Zip64Reached == FirstEntry.sizes \notin {"header", "none"} /\ FirstEntry.extra # "oversized"
\* the header, or a ZIP64 record the scan comes to, gives the size
CSizeGiven ==
    \/ FirstEntry.sizes \in {"header", "zip64-usize", "header+zip64"}
    \/ Zip64Reached /\ FirstEntry.sizes \in {"zip64", "zip64-csize"}
USizeGiven ==
    \/ FirstEntry.sizes \in {"header", "zip64-csize", "header+zip64"}
    \/ Zip64Reached /\ FirstEntry.sizes \in {"zip64", "zip64-usize", "zip64-short"}
\* the sizes the writer knew when it wrote the header
WrittenCSize ==
    IF FirstEntry.descriptor # "none" THEN 0
    ELSE IF FirstEntry.method = zipDeflate THEN Len(Deflate(FirstEntry.content))
    ELSE Len(FirstEntry.content)
WrittenUSize == IF FirstEntry.descriptor # "none" THEN 0 ELSE Len(FirstEntry.content)
FirstYielded ==
    /\ zlast = NoError
    /\ Len(zout) = 1
    /\ zout[1].Name = FirstEntry.name
    /\ z.curEntry.Name = FirstEntry.name
HeaderRejected(cause) ==
    /\ zlast = Wrap("unable to read zip file header", NewError(cause))
    /\ zout = <<>>
    /\ z.curEntry = NilEntry

\* C21 as stated: an extra-field record that declares more bytes than the
\* extra area has left makes the header a format error, and no entry is
\* yielded.
C21_OversizedExtraRecordIsFormatError ==
    FirstFileHeaderRead /\ Oversized => HeaderRejected("ErrFormat")
\* C21 amended: an oversized record ends the scan of the extra area without
\* an error.  With supported flags and method the entry is yielded, with
\* the sizes given by the header and by the ZIP64 records in front of the
\* oversized one, if these give the compressed size; otherwise the header
\* is a format error.
C21_OversizedExtraRecordEndsTheScan ==
    FirstFileHeaderRead /\ Oversized /\ FlagsSupported /\ MethodSupported =>
        IF CSizeGiven
        THEN /\ FirstYielded
             /\ z.curEntry.CompressedSize64 = WrittenCSize
             /\ z.curEntry.UncompressedSize64 = IF USizeGiven THEN WrittenUSize ELSE HugeSize
        ELSE HeaderRejected("ErrFormat")
\* an entry with its sizes in the header and an oversized record is yielded
C21_Witness ==
    /\ FirstFileHeaderRead /\ FirstYielded
    /\ FirstEntry.extra = "oversized"
    /\ FirstEntry.sizes = "zip64-usize"
    /\ z.curEntry.UncompressedSize64 = HugeSize

\* C22: a ZIP64 record replaces the uncompressed size only if the header's
\* 32-bit field is 0xFFFFFFFF, and the compressed size only if its field is
\* 0xFFFFFFFF, reading the uncompressed size first; a size whose field is
\* not maxed out stays what the header says.
C22_Zip64ReplacesOnlyMaxedSizes ==
    FirstFileHeaderRead /\ zlast = NoError =>
        /\ FirstYielded
        /\ z.curEntry.CompressedSize64 = WrittenCSize
        /\ z.curEntry.UncompressedSize64 = IF USizeGiven THEN WrittenUSize ELSE HugeSize
\* a DEFLATE entry whose header holds the sizes and whose ZIP64 record holds
\* other numbers is yielded
C22_Witness ==
    /\ FirstFileHeaderRead /\ FirstYielded
    /\ FirstEntry.sizes = "header+zip64"
    /\ FirstEntry.method = zipDeflate /\ FirstEntry.descriptor = "none"
    /\ FirstEntry.extra = "other"

\* C23: the four bytes of the header identifier alone decide what Next
\* does: the signature of a local file header makes it read the header, the
\* signatures of the central directory and of its end make it return io.EOF
\* for good, any other bytes make it return the format error.
C23_SignatureAloneDecides ==
    zmark.sig # <<>> =>
        /\ zmark.sig = SubSeq(zr, zmark.sigAt + 1, zmark.sigAt + 4)
        /\ zmark.sig = fileHeaderSignature
              => \/ zlast = NoError /\ zout # <<>> /\ zout[Len(zout)].at > zmark.sigAt + 4
                 \/ /\ zlast.wraps # <<>>
                    /\ zlast.wraps[1] = "unable to read zip file header"
        /\ zmark.sig \in {directoryHeaderSignature, directoryEndSignature}
              => zlast = ioEOF /\ z.localFileEnd
        /\ zmark.sig \notin {fileHeaderSignature, directoryHeaderSignature,
                             directoryEndSignature}
              => zlast = zipErrFormat /\ ~z.localFileEnd
\* a stream that begins with the signature of a data descriptor
C23_Witness ==
    /\ zcalls = 1
    /\ zmark.sig = dataDescriptorSignature
    /\ zlast = zipErrFormat

\* C26: a header that is encrypted, that announces a data descriptor for a
\* method other than DEFLATE, or whose method is neither STORE nor DEFLATE
\* makes Next return an error, and no entry is yielded.
C26_UnsupportedHeaderIsRejected ==
    FirstFileHeaderRead =>
        /\ FirstEntry.encrypted => HeaderRejected("encrypted ZIP entry not supported")
        /\ ~FlagsSupported \/ ~MethodSupported
              => /\ zlast.wraps = <<"unable to read zip file header">>
                 /\ zlast.cause \notin {"nil", "EOF"}
                 /\ zout = <<>>
                 /\ z.curEntry = NilEntry
\* an encrypted STORE entry with its sizes in the header
C26_Witness ==
    /\ FirstFileHeaderRead
    /\ FirstEntry.encrypted
    /\ FirstEntry.method = zipStore /\ FirstEntry.sizes = "header"
    /\ FirstEntry.descriptor = "none" /\ FirstEntry.extra = "none"
    /\ zlast.cause = "encrypted ZIP entry not supported"

(***************************************************************************)
(* Properties of the end of the stream (SpecZip).                          *)
(***************************************************************************)
\* the stream ends where the k-th entry of the archive ends (k = 0: it is empty)
EndsAtBoundary(k) == Len(zr) = EntryEnd(zarchive, k)
\* the four bytes in front of the reader's position are a signature of the
\* central directory
AfterDirectorySignature ==
    /\ z.pos >= headerIdentifierLen
    /\ SubSeq(zr, z.pos - headerIdentifierLen + 1, z.pos)
          \in {directoryHeaderSignature, directoryEndSignature}

\* C36: Next returns io.EOF only when it has read the signature of a central
\* directory header or of the end of the central directory; once it has,
\* every later call returns io.EOF and reads nothing.  On a stream that ends
\* at an entry boundary Next never returns io.EOF but, called past the last
\* entry there is, an error, and findReportFile, finding no report in the
\* entries, returns an error and not "no report".
C36_EndOfStreamOnlyAfterDirectory ==
    /\ zlast = ioEOF =>
          /\ z.localFileEnd
          /\ AfterDirectorySignature
          /\ \/ zmark.sig \in {directoryHeaderSignature, directoryEndSignature}
                   /\ zmark.sigAt = z.pos - headerIdentifierLen
             \/ zmark.sig = <<>> /\ zmark.sigAt = -1 /\ zmark.ddAt = -1
    /\ z.localFileEnd => zlast = ioEOF
    /\ \A k \in 0..Len(zarchive) :
          EndsAtBoundary(k) =>
              /\ zlast # ioEOF
              /\ zcalls > k => zlast # NoError
              /\ findReportFile(zr).err # NoError
\* Next is called again after it has returned io.EOF
C36_Witness ==
    /\ zcalls = Len(zarchive) + 2
    /\ zlast = ioEOF
    /\ zmark.sig = <<>>
    /\ AfterDirectorySignature

(***************************************************************************)
(* Properties of Next after an entry (SpecZipRead).                        *)
(***************************************************************************)
\* the last call of Next was the first one after the n-th entry was yielded
AdvancedPast(n) ==
    /\ n \in DOMAIN zarchive
    /\ zcalls = n + 1
    /\ Len(zout) = IF zlast = NoError THEN n + 1 ELSE n
\* the length of the data descriptor the writer put behind entry e
DescriptorLen(e) ==
    IF e.descriptor = "none" THEN 0
    ELSE (IF e.descriptor = "signed" THEN 4 ELSE 0) + 4
         + (IF e.sizes = "header" THEN 8 ELSE 16)
\* the position at which the data of the n-th entry ends
DataEnd(n) == EntryEnd(zarchive, n) - DescriptorLen(zarchive[n])

\* C24: when Next is called after the n-th entry, whatever part of the entry
\* the caller had read, the rest is consumed and the next header identifier
\* is read at the first byte after the entry and its data descriptor.
C24_NextResumesAfterTheEntry ==
    \A n \in DOMAIN zarchive :
        AdvancedPast(n) =>
            /\ zmark.sigAt = EntryEnd(zarchive, n)
            /\ zmark.sig = SubSeq(zr, EntryEnd(zarchive, n) + 1, EntryEnd(zarchive, n) + 4)

\* C25: advancing past an entry that has flag bit 3 set, Next consumes after
\* the entry's data 16 bytes if the first four are the signature of a data
\* descriptor and 12 bytes if they are not.
C25_DescriptorIsSixteenOrTwelveBytes ==
    \A n \in DOMAIN zarchive :
        AdvancedPast(n) /\ zarchive[n].descriptor # "none" =>
            /\ zmark.ddAt = DataEnd(n)
            /\ zmark.sigAt - zmark.ddAt =
                  IF SubSeq(zr, DataEnd(n) + 1, DataEnd(n) + 4) = dataDescriptorSignature
                  THEN 16 ELSE 12
\* a descriptor without signature behind an entry the caller read a part of
C25_Witness ==
    /\ AdvancedPast(1)
    /\ zarchive[1].descriptor = "unsigned"
    /\ zmark.was = "partial"
    /\ zmark.sigAt = zmark.ddAt + 12

(***************************************************************************)
(* Properties of the legacy conversion (SpecLegacy).                       *)
(***************************************************************************)
Converted == lpc \in {"converted", "parsed"}
LegacyFunction == lunit.Functions[1]
ConvertedFunction == lout.Functions[1]
\* the input the function's address was drawn from
AddressInput == CHOOSE a \in AddressInputs : LegacyFunction.Address = <<a.text>>

\* C27: the address of a legacy item is read as hexadecimal behind the
\* prefix "0x" and as decimal otherwise; a string that is no such number,
\* and a number that does not fit 64 bits, give the address 0.
C27_AddressIsParsedOrZero ==
    Converted /\ LegacyFunction.Address # <<>> =>
        ConvertedFunction.Address =
            <<IF AddressInput.is = "number" THEN AddressInput.value ELSE Zero64>>

\* C28: an optional field that the legacy report does not have (the unit's
\* complete flag, module name and module id, the item's demangled name and
\* address) is absent from the converted report.
C28_AbsentFieldsStayAbsent ==
    Converted =>
        /\ lunit.Complete = <<>> => lout.Complete = <<>>
        /\ lunit.ModuleName = <<>> => lout.ModuleName = <<>>
        /\ lunit.ModuleID = <<>> => lout.ModuleId = <<>>
        /\ LegacyFunction.DemangledName = <<>> => ConvertedFunction.DemangledName = <<>>
        /\ LegacyFunction.Address = <<>> => ConvertedFunction.Address = <<>>

\* C29: ParseReportJson takes a text of the current schema as it is, without
\* the legacy conversion; a text that only the legacy schema accepts is
\* converted; a text that neither accepts gives the error of the
\* current-schema parse.
C29_CurrentSchemaFirstItsErrorLast ==
    lpc = "parsed" =>
        /\ ljson = Json_EmptyObject
              => lparsed = [err |-> NoError, report |-> NilReport]
        /\ ljson = Json_LegacyObject
              => /\ lparsed.err = NoError
                 /\ lparsed.report.Measures = [present |-> TRUE, matched_code |-> 1]
        /\ ljson \in {Json_Array, Json_Invalid}
              => /\ lparsed.err # NoError
                 /\ lparsed.err = protojsonUnmarshal(ljson).err
                 /\ lparsed.err # legacyUnmarshal(ljson).err
\* a text that neither schema accepts, for which the two parsers give
\* different errors
C29_Witness ==
    /\ lpc = "parsed"
    /\ ljson = Json_Array
    /\ lparsed.err = NewError("proto: unexpected token [")

(***************************************************************************)
(* Properties of FetchReportFiles (SpecFetch).                             *)
(***************************************************************************)
FetchReturned == fres.status = "returned"
FetchReturnedFiles == FetchReturned /\ fres.err = NoError
\* a download-URL request or a download was sent for artifact idx
Requested(idx) == \E q \in DOMAIN freq : freq[q].kind \in {"url", "get"} /\ freq[q].idx = idx
\* findReportFile has been through the body of request q
FindDone(q) == freq[q].kind = "get" /\ freq[q].ok /\ ~(fpc = "find" /\ fidx = freq[q].idx)
\* no entry of the archive has a name findReportFile looks for
NoReportEntry(kind) ==
    \A i \in DOMAIN BodyArchive(kind) :
       LET name == BodyArchive(kind)[i].name
       IN  /\ ~HasSuffix(name, Str_report_json)
           /\ ~HasSuffix(name, Str_report_binpb)
           /\ ~HasSuffix(name, Str_report_pb)
\* the version of the file a row was stored for
StoredReportOf(h) == \E f \in {fres.files[i] : i \in DOMAIN fres.files} :
                        /\ NoCase(f.Version) = NoCase(FindVersion(fart[fhit[h].idx]).version)
                        /\ f.Commit.Sha = FetchCommit.Sha
                        /\ \E n \in DOMAIN fsrc : fsrc[n] = [idx |-> fhit[h].idx, from |-> "store"]

\* C11: for every artifact whose (project, version, commit) has a report row
\* in the store when the artifact is reached, no download-URL request and no
\* download is sent for the artifact, and a returned list holds the stored
\* report.
C11_StoredReportIsNotDownloaded ==
    \A h \in DOMAIN fhit :
       fhit[h].rows # {} =>
          /\ ~Requested(fhit[h].idx)
          /\ FetchReturnedFiles => StoredReportOf(h)

\* C14: a failed download-URL request, a failed download and a report.json
\* that is of neither schema end the call with an error and no list; an
\* archive without an entry named report.binpb, report.pb or report.json adds
\* no file and the call goes on to the next artifact.
C14_FailuresAbortMissingEntryIsSkipped ==
    \A q \in DOMAIN freq :
       /\ (freq[q].kind \in {"url", "get"} /\ ~freq[q].ok)
             => FetchReturned /\ fres.err # NoError /\ fres.files = <<>>
       /\ (FindDone(q) /\ freq[q].body = "mismatch")
             => FetchReturned /\ fres.err # NoError /\ fres.files = <<>>
       /\ (FindDone(q) /\ NoReportEntry(freq[q].body))
             => /\ fidx > freq[q].idx
                /\ \A n \in DOMAIN fsrc : fsrc[n].idx # freq[q].idx

\* C15: the list FetchReportFiles returns is in non-decreasing order of
\* version.
C15_ReturnedFilesSortedByVersion ==
    FetchReturnedFiles =>
       \A i, j \in DOMAIN fres.files :
          i < j => ~StringLess(fres.files[j].Version, fres.files[i].Version)
\* two files, one from the store and one downloaded, collected in descending
\* order of version, are returned
C15_Witness ==
    /\ FetchReturnedFiles
    /\ Len(fres.files) = 2
    /\ StringLess(ffiles[2].Version, ffiles[1].Version)
    /\ {fsrc[n].from : n \in DOMAIN fsrc} = {"store", "download"}

IsVersionChar(c) ==
    \/ c >= 65 /\ c <= 90
    \/ c >= 97 /\ c <= 122
    \/ c >= 48 /\ c <= 57
    \/ c = 95 \/ c = 45
MatchesVersionPattern(name) ==
    \E i \in 1..Len(name) :
        /\ \A j \in 1..i : IsVersionChar(name[j])
        /\ Len(name) >= i + 7
        /\ name[i + 1] \in {95, 45}
        /\ SubSeq(name, i + 2, i + 7) = Str_report
        /\ Len(name) > i + 7 => /\ name[i + 8] \in {95, 45}
                                /\ \A j \in (i + 9)..Len(name) : name[j] # 10

\* C32: the version taken from an artifact's name holds only ASCII letters,
\* digits, '_' and '-', and an artifact whose name does not match
\* ^(?P<version>[A-Za-z0-9_\-]+)[_-]report(?:[_-].*)?$ is skipped: no store
\* lookup and no request is made for it.
C32_OnlyMatchingArtifactsAreIngested ==
    /\ \A j \in DOMAIN fver : IsVersionChar(fver[j])
    /\ \A i \in DOMAIN fart :
          ~MatchesVersionPattern(fart[i]) =>
              /\ \A h \in DOMAIN fhit : fhit[h].idx # i
              /\ \A q \in DOMAIN freq : freq[q].idx # i

\* C18: no error of the ingest ends the process: the call of FetchReportFiles
\* returns.
C18_IngestErrorsAreReturned == fres.status # "exit"

(***************************************************************************)
(* Properties of the webhook handlers and their tasks (SpecTask).          *)
(***************************************************************************)
Dispatched(d) == task[d].state # "none"

\* C16: Handle's result does not depend on the task: for an event it works
\* on, Handle has started the task, can return while the task runs, and
\* returns nil; a task that failed has logged its error, and the error is not
\* Handle's result.
C16_HandleResultIndependentOfTask ==
    \A d \in Deliveries :
       /\ hev[d] = "accepted" => Dispatched(d)
       /\ (alive /\ hpc[d] = "dispatched") => ENABLED HandleReturn(d)
       /\ (hev[d] = "accepted" /\ hpc[d] = "returned") => hres[d] = "nil"
       /\ task[d].result = "error" => task[d].logged /\ hres[d] # "error"
\* a task failed before Handle returned, and Handle returned nil
C16_Witness ==
    \E d \in Deliveries :
       /\ task[d].result = "error"
       /\ hpc[d] = "returned"
       /\ hres[d] = "nil"
       /\ \E e \in Deliveries : hpc[e] = "returned" /\ Running(e)

\* C17: a task's context is a child of the root context with a deadline one
\* minute after dispatch: while the task runs, its context is cancelled once
\* the root context is cancelled or the minute is over, and by nothing else,
\* the end of the request included.
C17_TaskContextFollowsRootAndDeadline ==
    \A d \in Deliveries :
       Dispatched(d) =>
          /\ task[d].parent = "root"
          /\ task[d].deadline = task[d].started + Minute
          /\ Running(d) =>
                /\ rootDone => task[d].ctxErr # "nil"
                /\ now > task[d].deadline => task[d].ctxErr # "nil"
                /\ task[d].ctxErr = "Canceled" => rootDone
                /\ task[d].ctxErr = "DeadlineExceeded" => now >= task[d].deadline
\* the request is over, the task runs on under a context that is not
\* cancelled
C17_Witness ==
    \E d \in Deliveries :
       /\ Running(d)
       /\ reqDone[d]
       /\ task[d].ctxErr = "nil"
       /\ now > task[d].started
       /\ \E e \in Deliveries : Running(e) /\ task[e].ctxErr = "DeadlineExceeded"

(***************************************************************************)
(* Properties of GenerateChanges (SpecDiffer).                             *)
(***************************************************************************)
\* C19: GenerateChanges returns Changes only if the differ exited with
\* status zero and what it wrote decodes as Changes; after a non-zero exit it
\* returns an error that carries all the differ wrote to its standard output
\* and standard error; with no path set it returns an error and no process
\* was started.
C19_ChangesOnlyFromCleanExit ==
    gpc = "done" =>
       /\ gres.ok => /\ gstarted /\ gexit = 0
                     /\ UnmarshalChanges(Concat(gchunks)).ok
                     /\ gres.changes = UnmarshalChanges(Concat(gchunks)).changes
                     /\ gres.err = "nil"
       /\ ~gres.ok => gres.err # "nil"
       /\ (gstarted /\ gexit # 0) =>
             /\ ~gres.ok
             /\ gres.err = "failed to generate changes"
             /\ gres.output = Concat(gchunks)
       /\ gpath = <<>> => ~gres.ok /\ gres.err = "objdiff_path not set" /\ ~gstarted
\* the differ wrote to both streams and exited with a non-zero status
C19_Witness ==
    /\ gpc = "done"
    /\ gexit # 0
    /\ {gchunks[i].fd : i \in DOMAIN gchunks} = {"stdout", "stderr"}
    /\ gres.output = Concat(gchunks)

(***************************************************************************)
(* Properties of the pull request's comment (SpecPR).                      *)
(***************************************************************************)
\* the comments of decompal[bot] in a list of comments, by position
BotComments(list) == {i \in DOMAIN list : list[i].login = BotLogin}
FirstOf(positions) == CHOOSE i \in positions : \A j \in positions : i <= j
\* the writes of comments that the task of delivery d has made
WritesOf(d) == {i \in DOMAIN pwrites : pwrites[i].task = d}
\* the event of delivery d is one its handler works on
Dispatchable(d) ==
    /\ pev[d].parses
    /\ \/ pev[d].type = "workflow_run" /\ pev[d].state = "completed"
       \/ pev[d].type = "pull_request" /\ pev[d].state = "opened"

\* C34: however the tasks that work on the pull request interleave, the pull
\* request has at most one comment of decompal[bot].
C34_AtMostOneBotComment == Cardinality(BotComments(comments)) <= 1

\* C37: upsertComment creates a comment only when no listed comment is of
\* decompal[bot]; when one is, it edits the first of them if its body is not
\* the new body and writes nothing if it is, so that upsertComment with the
\* body the comment already has writes nothing.
C37_UpsertWritesOnlyWhatDiffers ==
    /\ \A i \in DOMAIN pwrites :
          LET w == pwrites[i]
              bot == BotComments(w.listed)
          IN  /\ w.write = "create" => bot = {}
              /\ w.write = "edit" =>
                    /\ bot # {}
                    /\ w.listed[FirstOf(bot)].id = w.commentID
                    /\ w.listed[FirstOf(bot)].body # w.body
    /\ \A d \in Tasks :
          LET bot == BotComments(plocal[d].listed)
          IN  /\ plocal[d].haveListed /\ bot # {}
                 /\ plocal[d].listed[FirstOf(bot)].body = plocal[d].body
                 => /\ WritesOf(d) = {}
                    /\ ppc[d] = "done" /\ plocal[d].result = "nil"
              /\ plocal[d].haveListed /\ ppc[d] = "done" /\ plocal[d].result = "nil"
                 /\ WritesOf(d) # {}
                 => \E i \in WritesOf(d) :
                       pwrites[i].write = (IF bot = {} THEN "create" ELSE "edit")
\* a task has created the comment, and a task that came to upsertComment
\* with the same body afterwards has listed it and written nothing
C37_Witness ==
    \E d \in Tasks, i \in DOMAIN pwrites :
        /\ pwrites[i].task # d
        /\ pwrites[i].write = "create"
        /\ plocal[d].haveListed /\ ppc[d] = "done"
        /\ plocal[d].body = pwrites[i].body
        /\ plocal[d].listed = comments
        /\ WritesOf(d) = {}

\* C38: a task writes a comment only if the head SHA of the pull request is
\* the SHA of the ingested commit, a completed run of the base commit exists
\* and the first one listed gives a report, and a version that the base and
\* the head both have has a change summary that is not empty; when the differ
\* fails for a version they both have, processPR returns an error and its
\* task writes no comment.
C38_CommentOnlyForComparableChange ==
    /\ \A i \in DOMAIN pwrites :
          LET f == plocal[pwrites[i].task].facts
          IN  f.headMatch /\ f.baseRun /\ f.baseReport /\ f.summary /\ ~f.differFailed
    /\ \A d \in Tasks :
          plocal[d].facts.reached /\ plocal[d].facts.differFailed =>
              /\ ppc[d] = "done" /\ plocal[d].result = "error"
              /\ ~plocal[d].haveListed
              /\ WritesOf(d) = {}
\* the differ failed for one version after it had given a summary for another
C38_Witness ==
    \E d \in Tasks :
        /\ plocal[d].facts.reached
        /\ plocal[d].facts.differFailed /\ plocal[d].facts.summary
        /\ plocal[d].result = "error"

\* C39: a task runs for a delivery only if it is a workflow_run event with
\* the status "completed" or a pull_request event with the action "opened";
\* for every other event that parses Handle returns nil and starts no task,
\* and nothing is ingested and no comment written for it.
C39_OnlyCompletedRunsAndOpenedPullRequests ==
    \A d \in Tasks :
        /\ ppc[d] \notin {"none", "returned"} \/ plocal[d].ingested \/ WritesOf(d) # {}
              => Dispatchable(d)
        /\ ppc[d] # "none" /\ pev[d].parses /\ ~Dispatchable(d) =>
              /\ ppc[d] = "returned"
              /\ plocal[d].hres = "nil"
              /\ plocal[d].result = "none"
              /\ ~plocal[d].ingested /\ ~plocal[d].haveListed
              /\ WritesOf(d) = {}
\* a workflow_run event of a run in progress was handled, and the task of
\* another delivery has written a comment
C39_Witness ==
    \E d \in Tasks :
        /\ pev[d].type = "workflow_run" /\ pev[d].parses /\ pev[d].state = "in_progress"
        /\ ppc[d] = "returned"
        /\ \E i \in DOMAIN pwrites : pwrites[i].task # d

====
